---- MODULE Spec2Model ----
(***************************************************************************)
(* The streaming frame/audio synchronisation pipeline of the Video view    *)
(* (src/frontend/src/Video.tsx): scene request, streaming channel, frame   *)
(* buffer, in-order compositor, archive, full playback with audio hand-off *)
(* and the unmount cleanup.  One browser task (an event handler, a timer   *)
(* tick, a load callback) is one action; handlers run to completion.       *)
(***************************************************************************)
EXTENDS Integers, Sequences, FiniteSets, Bags, TLC

(* ------------------------------ bounds --------------------------------- *)
\* frame messages carry sequence indices 0 .. MaxFrames-1
MaxFrames == 2
\* messages the server emits on one channel
MaxMsgs == 3
\* scenes in a scenes response (0 .. MaxScenes)
MaxScenes == 2
\* playVideo closures alive at once: the running one and the earlier ones
\* that still have an image load pending
MaxPlays == 1
\* an image load of playFrame completes before the running timer has ticked
\* MaxLag more times
MaxLag == 2
\* a playback-only run starts from an archive that ends Window frames after the
\* first scene boundary
Window == 2

(* ----------------------- program constants ----------------------------- *)
\* the threshold chain of playFrame's img.onload
Switch1 == 96
Switch2 == 192
Switch3 == 288
Switch4 == 384
\* "Update state less frequently (every 10 frames)"
StatusEvery == 10
\* num_scenes of the POST /generate request
NumScenes == 5

VARIABLES
    mounted,              \* the Video component is mounted (canvasRef is attached)
    hasPrompt,            \* location.state.prompt is present
    fetchState,           \* "idle" | "skipped" | "pending" | "ok" | "failed": the POST /generate request
    fetchAttempts,        \* number of fetch() calls issued
    isLoading,
    generatedData,        \* -1 (null) or the number of scenes of the response
    audioElements,        \* audioElementsRef.current: sequence of handle states
    audioSrc,             \* src of each handle: the scene whose audio_url it was created with, 0 once cleared
    wsState,              \* "none" | "connecting" | "open" | "closing" | "closed" (readyState of wsRef.current)
    wsCreated,            \* number of WebSocket objects constructed
    sent,                 \* number of messages the session has sent on the channel
    request,              \* the last message sent: [prompts, switch_frame_indices]
    msgCount,             \* number of messages the server has emitted
    terminalSeen,         \* a done or an error message has been processed
    readers,              \* bag of pending FileReader conversions (records [frame, data])
    frameQueue,           \* frameQueueRef.current: function frame_index -> image url
    nextFrameToDraw,      \* nextFrameToDrawRef.current
    isDrawing,            \* isDrawingRef.current
    liveLoads,            \* Image loads started by processFrameQueue: records [nextFrame, imageUrl]
    rafScheduled,         \* a requestAnimationFrame(processFrameQueue) callback is pending
    frames,               \* framesRef.current: the archive, a sparse array (Hole = empty slot)
    canvasSize,           \* canvasSizeRef.current: -1 (null), or the frame whose image gave the dimensions
    currentSceneRef,
    frameCount, totalFrames, wsStatus, currentScene,
    isGenerationComplete, isPlaying, currentPlaybackFrame,
    playbackIntervalRef,  \* 0 (null) or the id of the interval (the id of the closure that created it)
    timers,               \* ids of the interval timers that are active in the browser
    frameIndex,           \* frameIndex of the closure of each pass that still has a timer or a load
    playLoads,            \* Image loads started by playFrame: records [pass, frame]
    userStopped,          \* stopVideo has run and Play has not been pressed since
    drawn,                \* sequence indices drawn by processFrameQueue, in draw order
    received,             \* the jpeg frame messages ws.onmessage has handled: records [frame, data]
    reordered,            \* a frame was buffered ahead of the cursor while the cursor's frame was missing
    centerIndex,          \* editor: the selected chunk (useState of Edit), NaN after a modulo by 0
    currentFrame,         \* editor: the displayed position (useState of Edit)
    last                  \* what the last handler did: [drew, play, paused, msg, tick]

reactVars == <<isLoading, generatedData, frameCount, totalFrames, wsStatus, currentScene,
               isGenerationComplete, isPlaying, currentPlaybackFrame>>
fetchVars == <<hasPrompt, fetchState, fetchAttempts>>
wsVars == <<wsState, wsCreated, sent, request, msgCount, terminalSeen>>
liveVars == <<readers, frameQueue, nextFrameToDraw, isDrawing, liveLoads, rafScheduled,
              frames, canvasSize, drawn, received, reordered>>
playVars == <<playbackIntervalRef, timers, frameIndex, playLoads, userStopped>>
editVars == <<centerIndex, currentFrame>>
vars == <<mounted, fetchVars, wsVars, liveVars, playVars, reactVars, audioElements,
          audioSrc, currentSceneRef, editVars, last>>

(* ------------------------------ values --------------------------------- *)
FrameIdx == 0 .. (MaxFrames - 1)
\* payload of a frame message: a JPEG image, base64 of bytes that are no image,
\* or a string that is not base64 at all
Payloads == {"jpeg", "notimage", "notbase64"}
Hole == [frame |-> -1, data |-> "hole"]
Url(i, d) == [frame |-> i, data |-> d]

FrameMsgs == [type : {"frame"}, frame_index : FrameIdx, format : {"jpeg"}, data : Payloads,
              total_frames : {0}]
OddMsgs == { [type |-> "frame", frame_index |-> 0, format |-> "png", data |-> "jpeg",
              total_frames |-> 0],
             [type |-> "status", frame_index |-> 0, format |-> "jpeg", data |-> "jpeg",
              total_frames |-> 0] }
DoneMsgs == [type : {"done"}, frame_index : {0}, format : {"jpeg"}, data : {"jpeg"},
             total_frames : {1, MaxFrames}]
ErrorMsgs == [type : {"error"}, frame_index : {0}, format : {"jpeg"}, data : {"jpeg"},
              total_frames : {0}]
Messages == FrameMsgs \cup OddMsgs \cup DoneMsgs \cup ErrorMsgs

\* what a handler did, for the properties that speak of draws and play() calls
\* drew: "no" | "live" | "play"; play: the handle play() was called on, or -1;
\* paused: every handle was paused; msg: "no", or a message was "handled" by
\* ws.onmessage or "discarded" by the browser; tick: the pass whose interval timer
\* fired, or 0
Quiet == [drew |-> "no", play |-> -1, paused |-> FALSE, msg |-> "no", tick |-> 0]

\* a React state setter: no effect once the component is unmounted
SetState(cur, new) == IF mounted THEN new ELSE cur

\* the canvas element is rendered when wsStatus or frameCount is truthy (line 425)
CanvasReady == mounted /\ (wsStatus # "" \/ frameCount > 0)

(* --------------------------- audio handles ----------------------------- *)
\* a handle is "ready" (paused at 0), "playing", "paused" (paused, not rewound)
\* or "released" (src cleared by the unmount cleanup)
Pause(h) == IF h = "playing" THEN "paused" ELSE h
Rewind(h) == IF h = "paused" THEN "ready" ELSE h
PauseAll(a) == [i \in DOMAIN a |-> Pause(a[i])]
PauseRewindAll(a) == [i \in DOMAIN a |-> Rewind(Pause(a[i]))]
\* audio.play(): resolves (the handle plays) or rejects (autoplay policy); a
\* released handle has no source and always rejects.  k is the 0-based index.
PlayOutcomes(a, k) ==
    IF k + 1 \in DOMAIN a
    THEN {a} \cup (IF a[k + 1] = "released" THEN {}
                   ELSE {[a EXCEPT ![k + 1] = "playing"]})
    ELSE {a}
Playing(a) == {i \in DOMAIN a : a[i] = "playing"}

(* ------------------------------ archive -------------------------------- *)
\* framesRef.current[i] = url on a JavaScript array: slots between the old
\* length and i are left empty
ArraySet(arr, i, u) ==
    [k \in 1 .. (IF i + 1 > Len(arr) THEN i + 1 ELSE Len(arr)) |->
        IF k = i + 1 THEN u ELSE IF k <= Len(arr) THEN arr[k] ELSE Hole]

\* the request of ws.onopen for n scenes: the prompts (prompt i stands for
\* scenes[i].video_prompt) in scene order and the boundary table
NoRequest == [prompts |-> <<>>, switch_frame_indices |-> <<>>]
Request(n) == [prompts |-> [i \in 1 .. n |-> i],
               switch_frame_indices |-> <<Switch1, Switch2, Switch3, Switch4>>]

MapSet(q, i, u) == [k \in (DOMAIN q) \cup {i} |-> IF k = i THEN u ELSE q[k]]
MapDelete(q, i) == [k \in (DOMAIN q) \ {i} |-> q[k]]
EmptyMap == [k \in {} |-> Hole]

(* ------------------------------- Init ---------------------------------- *)
Init ==
    /\ mounted = TRUE
    /\ hasPrompt \in BOOLEAN
    /\ fetchState = "idle" /\ fetchAttempts = 0
    /\ isLoading = FALSE /\ generatedData = -1
    /\ audioElements = <<>> /\ audioSrc = <<>>
    /\ wsState = "none" /\ wsCreated = 0 /\ sent = 0 /\ msgCount = 0
    /\ request = NoRequest
    /\ terminalSeen = FALSE
    /\ readers = EmptyBag /\ frameQueue = EmptyMap
    /\ nextFrameToDraw = 0 /\ isDrawing = FALSE /\ liveLoads = EmptyBag
    /\ rafScheduled = FALSE
    /\ frames = <<>> /\ canvasSize = -1 /\ drawn = <<>>
    /\ received = {} /\ reordered = FALSE
    /\ currentSceneRef = 0
    /\ frameCount = 0 /\ totalFrames = 0 /\ wsStatus = "" /\ currentScene = 0
    /\ isGenerationComplete = FALSE /\ isPlaying = FALSE /\ currentPlaybackFrame = 0
    /\ playbackIntervalRef = 0 /\ timers = {} /\ frameIndex = EmptyMap
    /\ playLoads = {} /\ userStopped = FALSE
    /\ centerIndex = 0 /\ currentFrame = 0
    /\ last = Quiet

(* ------------------------- scene metadata request ---------------------- *)
\* (mutant) the auto-start effect without the prompt check
AutoStartNoCheck ==
    /\ mounted /\ fetchState = "idle"
    /\ fetchState' = "pending"
    /\ fetchAttempts' = fetchAttempts + 1
    /\ isLoading' = SetState(isLoading, TRUE)
    /\ last' = Quiet
    /\ UNCHANGED <<mounted, editVars, hasPrompt, wsVars, liveVars, playVars, audioElements, audioSrc,
                   currentSceneRef, generatedData, frameCount, totalFrames, wsStatus,
                   currentScene, isGenerationComplete, isPlaying, currentPlaybackFrame>>

\* the auto-start effect: without a prompt it returns at once ("skipped")
AutoStart ==
    /\ mounted /\ fetchState = "idle"
    /\ IF hasPrompt
       THEN /\ fetchState' = "pending"
            /\ fetchAttempts' = fetchAttempts + 1
            /\ isLoading' = SetState(isLoading, TRUE)
       ELSE /\ fetchState' = "skipped"
            /\ UNCHANGED <<fetchAttempts, isLoading>>
    /\ last' = Quiet
    /\ UNCHANGED <<mounted, editVars, hasPrompt, wsVars, liveVars, playVars, audioElements, audioSrc,
                   currentSceneRef, generatedData, frameCount, totalFrames, wsStatus,
                   currentScene, isGenerationComplete, isPlaying, currentPlaybackFrame>>

\* startWebSocketGeneration(data): reset the view state and construct the WebSocket
StartWebSocketGeneration ==
    /\ frameCount' = SetState(frameCount, 0)
    /\ totalFrames' = SetState(totalFrames, 0)
    /\ isGenerationComplete' = SetState(isGenerationComplete, FALSE)
    /\ isPlaying' = SetState(isPlaying, FALSE)
    /\ frames' = <<>>
    /\ wsStatus' = SetState(wsStatus, "Connecting to video generation...")
    /\ wsState' = "connecting"
    /\ wsCreated' = wsCreated + 1

\* (mutant) the audio of the first scene only is created before the channel
\* is opened
FetchOkLazy(n) ==
    /\ fetchState = "pending"
    /\ fetchState' = "ok"
    /\ generatedData' = SetState(generatedData, n)
    /\ audioElements' = [i \in 1 .. 1 |-> "ready"]
    /\ audioSrc' = [i \in 1 .. 1 |-> i]
    /\ isLoading' = SetState(isLoading, FALSE)
    /\ StartWebSocketGeneration
    /\ last' = Quiet
    /\ UNCHANGED <<mounted, editVars, hasPrompt, fetchAttempts, sent, request, msgCount, terminalSeen,
                   readers, frameQueue, nextFrameToDraw, isDrawing, liveLoads,
                   rafScheduled, canvasSize, drawn, received, reordered, playVars,
                   currentSceneRef, currentScene, currentPlaybackFrame>>

\* the response arrived with status 2xx and n scenes: preload audio, open the channel
FetchOk(n) ==
    /\ fetchState = "pending"
    /\ fetchState' = "ok"
    /\ generatedData' = SetState(generatedData, n)
    /\ audioElements' = [i \in 1 .. n |-> "ready"]
    /\ audioSrc' = [i \in 1 .. n |-> i]
    /\ isLoading' = SetState(isLoading, FALSE)
    /\ StartWebSocketGeneration
    /\ last' = Quiet
    /\ UNCHANGED <<mounted, editVars, hasPrompt, fetchAttempts, sent, request, msgCount, terminalSeen,
                   readers, frameQueue, nextFrameToDraw, isDrawing, liveLoads,
                   rafScheduled, canvasSize, drawn, received, reordered, playVars,
                   currentSceneRef, currentScene, currentPlaybackFrame>>

\* (mutant) the catch branch issues the request again
FetchFailedRetry ==
    /\ fetchState' = "pending"
    /\ fetchAttempts' = fetchAttempts + 1
    /\ isLoading' = SetState(isLoading, TRUE)
    /\ UNCHANGED <<wsVars, audioElements, audioSrc, generatedData, frameCount,
                   totalFrames, wsStatus, isGenerationComplete, isPlaying, frames>>

\* the catch branch: a non-2xx status (the throw of line 65) or a network error
FetchFailed ==
    /\ fetchState' = "failed"
    /\ isLoading' = SetState(isLoading, FALSE)
    /\ UNCHANGED <<fetchAttempts, wsVars, audioElements, audioSrc, generatedData, frameCount,
                   totalFrames, wsStatus, isGenerationComplete, isPlaying, frames>>

FetchFail ==
    /\ fetchState = "pending"
    /\ FetchFailed
    /\ last' = Quiet
    /\ UNCHANGED <<mounted, editVars, hasPrompt, readers, frameQueue, nextFrameToDraw, isDrawing,
                   liveLoads, rafScheduled, canvasSize, drawn, received, reordered,
                   playVars, currentSceneRef, currentScene, currentPlaybackFrame>>

(* ----------------------------- scene clock ----------------------------- *)
\* (mutant) the thresholds compared with > instead of >=
SceneIndexStrict(f) ==
    IF f > Switch4 THEN 4
    ELSE IF f > Switch3 THEN 3
    ELSE IF f > Switch2 THEN 2
    ELSE IF f > Switch1 THEN 1
    ELSE 0

\* (mutant) the results of two branches exchanged
SceneIndexSwapped(f) ==
    IF f >= Switch4 THEN 4
    ELSE IF f >= Switch3 THEN 2
    ELSE IF f >= Switch2 THEN 3
    ELSE IF f >= Switch1 THEN 1
    ELSE 0

\* the threshold chain of img.onload (lines 344-348)
SceneIndex(f) ==
    IF f >= Switch4 THEN 4
    ELSE IF f >= Switch3 THEN 3
    ELSE IF f >= Switch2 THEN 2
    ELSE IF f >= Switch1 THEN 1
    ELSE 0

(* ----------------------------- compositor ------------------------------ *)
\* (mutant) processFrameQueue without the isDrawing check
ProcessFrameQueueNoGuard(q) ==
    IF ~CanvasReady \/ nextFrameToDraw \notin DOMAIN q
    THEN UNCHANGED <<isDrawing, liveLoads>>
    ELSE /\ isDrawing' = TRUE
         /\ liveLoads' = liveLoads (+)
                SetToBag({[nextFrame |-> nextFrameToDraw, imageUrl |-> q[nextFrameToDraw]]})

\* processFrameQueue(), called with the frame buffer q as the caller left it
ProcessFrameQueue(q) ==
    IF isDrawing \/ ~CanvasReady \/ nextFrameToDraw \notin DOMAIN q
    THEN UNCHANGED <<isDrawing, liveLoads>>
    ELSE /\ isDrawing' = TRUE
         /\ liveLoads' = liveLoads (+)
                SetToBag({[nextFrame |-> nextFrameToDraw, imageUrl |-> q[nextFrameToDraw]]})

\* (mutant) img.onload of processFrameQueue also evaluates the scene chain
ImgLoadedSceneClock(l) ==
    /\ canvasSize' = (IF l.nextFrame = 0 THEN 0 ELSE canvasSize)
    /\ drawn' = Append(drawn, l.nextFrame)
    /\ last' = [Quiet EXCEPT !.drew = "live"]
    /\ frames' = ArraySet(frames, l.nextFrame, l.imageUrl)
    /\ IF l.nextFrame % StatusEvery = 0
       THEN /\ frameCount' = SetState(frameCount, l.nextFrame + 1)
            /\ wsStatus' = SetState(wsStatus, "Generating frame N...")
       ELSE UNCHANGED <<frameCount, wsStatus>>
    /\ frameQueue' = MapDelete(frameQueue, l.nextFrame)
    /\ nextFrameToDraw' = l.nextFrame + 1
    /\ isDrawing' = FALSE
    /\ rafScheduled' = TRUE
    /\ currentSceneRef' = SceneIndex(l.nextFrame) /\ currentScene' = SetState(currentScene, SceneIndex(l.nextFrame))

\* (mutant) img.onload appends to the archive instead of writing at the sequence index
ImgLoadedPush(l) ==
    /\ canvasSize' = (IF l.nextFrame = 0 THEN 0 ELSE canvasSize)
    /\ drawn' = Append(drawn, l.nextFrame)
    /\ last' = [Quiet EXCEPT !.drew = "live"]
    /\ frames' = Append(frames, l.imageUrl)
    /\ IF l.nextFrame % StatusEvery = 0
       THEN /\ frameCount' = SetState(frameCount, l.nextFrame + 1)
            /\ wsStatus' = SetState(wsStatus, "Generating frame N...")
       ELSE UNCHANGED <<frameCount, wsStatus>>
    /\ frameQueue' = MapDelete(frameQueue, l.nextFrame)
    /\ nextFrameToDraw' = l.nextFrame + 1
    /\ isDrawing' = FALSE
    /\ rafScheduled' = TRUE
    /\ UNCHANGED <<currentSceneRef, currentScene>>

\* (mutant) img.onload takes the canvas dimensions from every frame
ImgLoadedResize(l) ==
    /\ canvasSize' = l.nextFrame
    /\ drawn' = Append(drawn, l.nextFrame)
    /\ last' = [Quiet EXCEPT !.drew = "live"]
    /\ frames' = ArraySet(frames, l.nextFrame, l.imageUrl)
    /\ IF l.nextFrame % StatusEvery = 0
       THEN /\ frameCount' = SetState(frameCount, l.nextFrame + 1)
            /\ wsStatus' = SetState(wsStatus, "Generating frame N...")
       ELSE UNCHANGED <<frameCount, wsStatus>>
    /\ frameQueue' = MapDelete(frameQueue, l.nextFrame)
    /\ nextFrameToDraw' = l.nextFrame + 1
    /\ isDrawing' = FALSE
    /\ rafScheduled' = TRUE
    /\ UNCHANGED <<currentSceneRef, currentScene>>

\* (mutant) img.onload leaves the drawn frame's entry in the frame buffer
ImgLoadedKeep(l) ==
    /\ canvasSize' = (IF l.nextFrame = 0 THEN 0 ELSE canvasSize)
    /\ drawn' = Append(drawn, l.nextFrame)
    /\ last' = [Quiet EXCEPT !.drew = "live"]
    /\ frames' = ArraySet(frames, l.nextFrame, l.imageUrl)
    /\ IF l.nextFrame % StatusEvery = 0
       THEN /\ frameCount' = SetState(frameCount, l.nextFrame + 1)
            /\ wsStatus' = SetState(wsStatus, "Generating frame N...")
       ELSE UNCHANGED <<frameCount, wsStatus>>
    /\ frameQueue' = frameQueue
    /\ nextFrameToDraw' = l.nextFrame + 1
    /\ isDrawing' = FALSE
    /\ rafScheduled' = TRUE
    /\ UNCHANGED <<currentSceneRef, currentScene>>

\* img.onload of processFrameQueue: draw, archive, advance the cursor
ImgLoaded(l) ==
    /\ canvasSize' = (IF l.nextFrame = 0 THEN 0 ELSE canvasSize)
    /\ drawn' = Append(drawn, l.nextFrame)
    /\ last' = [Quiet EXCEPT !.drew = "live"]
    /\ frames' = ArraySet(frames, l.nextFrame, l.imageUrl)
    /\ IF l.nextFrame % StatusEvery = 0
       THEN /\ frameCount' = SetState(frameCount, l.nextFrame + 1)
            /\ wsStatus' = SetState(wsStatus, "Generating frame N...")
       ELSE UNCHANGED <<frameCount, wsStatus>>
    /\ frameQueue' = MapDelete(frameQueue, l.nextFrame)
    /\ nextFrameToDraw' = l.nextFrame + 1
    /\ isDrawing' = FALSE
    /\ rafScheduled' = TRUE
    /\ UNCHANGED <<currentSceneRef, currentScene>>

\* (mutant) img.onerror empties the frame buffer instead of deleting one entry
ImgFailedClear(l) ==
    /\ frameQueue' = EmptyMap
    /\ nextFrameToDraw' = l.nextFrame + 1
    /\ isDrawing' = FALSE
    /\ rafScheduled' = TRUE
    /\ last' = Quiet
    /\ UNCHANGED <<canvasSize, drawn, frames, frameCount, wsStatus, currentSceneRef,
                   currentScene>>

\* (mutant) img.onerror leaves the drawing flag set
ImgFailedKeepFlag(l) ==
    /\ frameQueue' = MapDelete(frameQueue, l.nextFrame)
    /\ nextFrameToDraw' = l.nextFrame + 1
    /\ isDrawing' = isDrawing
    /\ rafScheduled' = TRUE
    /\ last' = Quiet
    /\ UNCHANGED <<canvasSize, drawn, frames, frameCount, wsStatus, currentSceneRef,
                   currentScene>>

\* img.onerror of processFrameQueue: skip the frame, advance the cursor
ImgFailed(l) ==
    /\ frameQueue' = MapDelete(frameQueue, l.nextFrame)
    /\ nextFrameToDraw' = l.nextFrame + 1
    /\ isDrawing' = FALSE
    /\ rafScheduled' = TRUE
    /\ last' = Quiet
    /\ UNCHANGED <<canvasSize, drawn, frames, frameCount, wsStatus, currentSceneRef,
                   currentScene>>

\* the decode of an image started by processFrameQueue completes
ImgDone(l) ==
    /\ BagIn(l, liveLoads)
    /\ liveLoads' = liveLoads (-) SetToBag({l})
    /\ IF l.imageUrl.data = "jpeg" THEN ImgLoaded(l) ELSE ImgFailed(l)
    /\ UNCHANGED <<mounted, editVars, fetchVars, wsVars, readers, received, reordered, playVars,
                   audioElements, audioSrc, isLoading, generatedData, totalFrames,
                   isGenerationComplete, isPlaying, currentPlaybackFrame>>

\* the requestAnimationFrame callback
AnimationFrame ==
    /\ rafScheduled
    /\ rafScheduled' = FALSE
    /\ ProcessFrameQueue(frameQueue)
    /\ last' = Quiet
    /\ UNCHANGED <<mounted, editVars, fetchVars, wsVars, readers, frameQueue, nextFrameToDraw,
                   frames, canvasSize, drawn, received, reordered, playVars, reactVars,
                   audioElements, audioSrc, currentSceneRef>>

\* reader.onloadend: store the data URL under its sequence index, then drain
ReaderLoadEnd(u) ==
    /\ BagIn(u, readers)
    /\ readers' = readers (-) SetToBag({u})
    /\ frameQueue' = MapSet(frameQueue, u.frame, u)
    /\ ProcessFrameQueue(MapSet(frameQueue, u.frame, u))
    /\ reordered' = (reordered \/ (u.frame > nextFrameToDraw
                                    /\ nextFrameToDraw \notin DOMAIN frameQueue))
    /\ last' = Quiet
    /\ UNCHANGED <<mounted, editVars, fetchVars, wsVars, nextFrameToDraw, rafScheduled, frames,
                   canvasSize, drawn, received, playVars, reactVars, audioElements, audioSrc,
                   currentSceneRef>>

(* -------------------------- streaming channel -------------------------- *)
\* (mutant) ws.onopen sends one message per scene
WsOpenPerScene ==
    /\ wsState = "connecting"
    /\ wsState' = "open"
    /\ wsStatus' = SetState(wsStatus, "Generating frames...")
    /\ sent' = sent + Len(audioElements)
    /\ request' = Request(Len(audioElements))
    /\ frameQueue' = EmptyMap
    /\ nextFrameToDraw' = 0
    /\ currentSceneRef' = 0
    /\ last' = Quiet
    /\ UNCHANGED <<mounted, editVars, fetchVars, wsCreated, msgCount, terminalSeen, readers,
                   isDrawing, liveLoads, rafScheduled, frames, canvasSize, drawn,
                   received, reordered, playVars, audioElements, audioSrc, isLoading, generatedData, frameCount,
                   totalFrames, currentScene, isGenerationComplete, isPlaying,
                   currentPlaybackFrame>>

\* (mutant) ws.onopen starts the audio of the first scene
WsOpenAudio ==
    /\ wsState = "connecting"
    /\ wsState' = "open"
    /\ wsStatus' = SetState(wsStatus, "Generating frames...")
    /\ sent' = sent + 1
    /\ request' = Request(Len(audioElements))
    /\ frameQueue' = EmptyMap
    /\ nextFrameToDraw' = 0
    /\ currentSceneRef' = 0
    /\ last' = Quiet
    /\ \E a \in PlayOutcomes(audioElements, 0) : audioElements' = a
    /\ UNCHANGED <<mounted, editVars, fetchVars, wsCreated, msgCount, terminalSeen, readers,
                   isDrawing, liveLoads, rafScheduled, frames, canvasSize, drawn,
                   received, reordered, playVars, audioSrc, isLoading, generatedData, frameCount,
                   totalFrames, currentScene, isGenerationComplete, isPlaying,
                   currentPlaybackFrame>>

\* ws.onopen: send the single request, reset the frame buffer and the cursor
WsOpen ==
    /\ wsState = "connecting"
    /\ wsState' = "open"
    /\ wsStatus' = SetState(wsStatus, "Generating frames...")
    /\ sent' = sent + 1
    /\ request' = Request(Len(audioElements))
    /\ frameQueue' = EmptyMap
    /\ nextFrameToDraw' = 0
    /\ currentSceneRef' = 0
    /\ last' = Quiet
    /\ UNCHANGED <<mounted, editVars, fetchVars, wsCreated, msgCount, terminalSeen, readers,
                   isDrawing, liveLoads, rafScheduled, frames, canvasSize, drawn,
                   received, reordered, playVars, audioElements, audioSrc, isLoading, generatedData, frameCount,
                   totalFrames, currentScene, isGenerationComplete, isPlaying,
                   currentPlaybackFrame>>

\* the 'frame' branch: atob throws on a string that is not base64 (the handler's
\* promise rejects and nothing is stored); otherwise a FileReader is started
OnFrame(m) ==
    /\ IF m.format = "jpeg" /\ m.data # "notbase64"
       THEN readers' = readers (+) SetToBag({Url(m.frame_index, m.data)})
       ELSE UNCHANGED readers
    /\ IF m.format = "jpeg"
       THEN received' = received \cup {Url(m.frame_index, m.data)}
       ELSE UNCHANGED received
    /\ UNCHANGED <<wsState, terminalSeen, frameCount, totalFrames, isGenerationComplete,
                   wsStatus>>

\* (mutant) the 'done' branch without ws.close()
OnDoneNoClose(m) ==
    /\ frameCount' = SetState(frameCount, m.total_frames)
    /\ totalFrames' = SetState(totalFrames, m.total_frames)
    /\ isGenerationComplete' = SetState(isGenerationComplete, TRUE)
    /\ wsStatus' = SetState(wsStatus, "Complete! Click Play to watch with audio.")
    /\ terminalSeen' = TRUE
    /\ UNCHANGED <<wsState, readers, received>>

\* the 'done' branch
OnDone(m) ==
    /\ frameCount' = SetState(frameCount, m.total_frames)
    /\ totalFrames' = SetState(totalFrames, m.total_frames)
    /\ isGenerationComplete' = SetState(isGenerationComplete, TRUE)
    /\ wsStatus' = SetState(wsStatus, "Complete! Click Play to watch with audio.")
    /\ wsState' = "closing"
    /\ terminalSeen' = TRUE
    /\ UNCHANGED <<readers, received>>

\* the 'error' branch
OnError(m) ==
    /\ wsStatus' = SetState(wsStatus, "Error: message")
    /\ wsState' = "closing"
    /\ terminalSeen' = TRUE
    /\ UNCHANGED <<readers, received, frameCount, totalFrames, isGenerationComplete>>

\* a message no branch of ws.onmessage acts on: a type other than frame, done and
\* error, or a frame whose format is not jpeg
Unexpected(m) ==
    \/ m.type \notin {"frame", "done", "error"}
    \/ m.type = "frame" /\ m.format # "jpeg"

\* (mutant) ws.onmessage closes the channel on a type it does not know
OnMessageStrict(m) ==
    /\ CASE m.type = "frame" -> OnFrame(m)
         [] m.type = "done" -> OnDone(m)
         [] m.type = "error" -> OnError(m)
         [] OTHER -> /\ wsState' = "closing"
                     /\ UNCHANGED <<terminalSeen, readers, received, frameCount,
                                    totalFrames, isGenerationComplete, wsStatus>>
    /\ last' = [Quiet EXCEPT !.msg = IF Unexpected(m) THEN "unexpected" ELSE "handled"]

\* ws.onmessage
OnMessage(m) ==
    /\ CASE m.type = "frame" -> OnFrame(m)
         [] m.type = "done" -> OnDone(m)
         [] m.type = "error" -> OnError(m)
         [] OTHER -> UNCHANGED <<wsState, terminalSeen, readers, received, frameCount,
                                 totalFrames, isGenerationComplete, wsStatus>>
    /\ last' = [Quiet EXCEPT !.msg = IF Unexpected(m) THEN "unexpected" ELSE "handled"]

\* the server emits a message; the browser dispatches the message event only
\* while readyState is OPEN, so after close() the message is discarded
WsMessage(m) ==
    /\ wsState \in {"open", "closing"}
    /\ msgCount < MaxMsgs
    /\ msgCount' = msgCount + 1
    /\ IF wsState = "open"
       THEN OnMessage(m)
       ELSE /\ last' = [Quiet EXCEPT !.msg = "discarded"]
            /\ UNCHANGED <<wsState, terminalSeen, readers, received, frameCount,
                           totalFrames, isGenerationComplete, wsStatus>>
    /\ UNCHANGED <<mounted, editVars, fetchVars, wsCreated, sent, request, frameQueue, nextFrameToDraw,
                   isDrawing, liveLoads, rafScheduled, frames, canvasSize, drawn,
                   reordered, playVars, audioElements, audioSrc, currentSceneRef, isLoading, generatedData,
                   currentScene, isPlaying, currentPlaybackFrame>>

\* ws.onerror: the connection failed; the close event follows
WsError ==
    /\ wsState \in {"connecting", "open"}
    /\ wsState' = "closing"
    /\ wsStatus' = SetState(wsStatus, "WebSocket error occurred")
    /\ last' = Quiet
    /\ UNCHANGED <<mounted, editVars, fetchVars, wsCreated, sent, request, msgCount, terminalSeen, liveVars,
                   playVars, audioElements, audioSrc, currentSceneRef, isLoading, generatedData,
                   frameCount, totalFrames, currentScene, isGenerationComplete, isPlaying,
                   currentPlaybackFrame>>

\* the server closes the channel
ServerClose ==
    /\ wsState = "open"
    /\ wsState' = "closing"
    /\ last' = Quiet
    /\ UNCHANGED <<mounted, editVars, fetchVars, wsCreated, sent, request, msgCount, terminalSeen, liveVars,
                   playVars, audioElements, audioSrc, currentSceneRef, reactVars>>

\* frameCount as ws.onclose reads it: the handler closes over the render that ran
\* the auto-start effect, where frameCount is its initial useState(0)
ClosureFrameCount == 0

\* ws.onclose
WsClose ==
    /\ wsState = "closing"
    /\ wsState' = "closed"
    /\ IF ClosureFrameCount = 0
       THEN wsStatus' = SetState(wsStatus, "Connection closed")
       ELSE UNCHANGED wsStatus
    /\ last' = Quiet
    /\ UNCHANGED <<mounted, editVars, fetchVars, wsCreated, sent, request, msgCount, terminalSeen, liveVars,
                   playVars, audioElements, audioSrc, currentSceneRef, isLoading, generatedData,
                   frameCount, totalFrames, currentScene, isGenerationComplete, isPlaying,
                   currentPlaybackFrame>>

(* ---------------------------- full playback ---------------------------- *)
\* the playVideo closures something can still run: those whose interval timer is
\* active or whose image loads are pending (fi restricted to them)
Closures(fi, tm, loads) ==
    [p \in (DOMAIN fi) \cap (tm \cup {l.pass : l \in loads}) |-> fi[p]]

\* (mutant) playFrame returns at an archive hole without incrementing frameIndex
PlayFrameStuck(p, f) ==
    IF f >= Len(frames)
    THEN /\ isPlaying' = SetState(isPlaying, FALSE)
         /\ wsStatus' = SetState(wsStatus, "Playback complete!")
         /\ timers' = (IF playbackIntervalRef # 0 THEN timers \ {playbackIntervalRef}
                       ELSE timers)
         /\ playbackIntervalRef' = 0
         /\ audioElements' = PauseAll(audioElements)
         /\ frameIndex' = Closures(frameIndex, timers', playLoads)
         /\ UNCHANGED <<playLoads, audioSrc>>
    ELSE /\ IF frames[f + 1] = Hole
            THEN UNCHANGED <<playLoads, frameIndex>>
            ELSE /\ playLoads' = playLoads \cup {[pass |-> p, frame |-> f]}
                 /\ frameIndex' = [frameIndex EXCEPT ![p] = f + 1]
         /\ UNCHANGED <<isPlaying, wsStatus, timers, playbackIntervalRef, audioElements, audioSrc>>

\* playFrame() of pass p, whose closure's frameIndex is f
PlayFrame(p, f) ==
    IF f >= Len(frames)
    THEN /\ isPlaying' = SetState(isPlaying, FALSE)
         /\ wsStatus' = SetState(wsStatus, "Playback complete!")
         /\ timers' = (IF playbackIntervalRef # 0 THEN timers \ {playbackIntervalRef}
                       ELSE timers)
         /\ playbackIntervalRef' = 0
         /\ audioElements' = PauseAll(audioElements)
         /\ frameIndex' = Closures(frameIndex, timers', playLoads)
         /\ UNCHANGED <<playLoads, audioSrc>>
    ELSE /\ frameIndex' = [frameIndex EXCEPT ![p] = f + 1]
         /\ IF frames[f + 1] = Hole
            THEN UNCHANGED playLoads
            ELSE playLoads' = playLoads \cup {[pass |-> p, frame |-> f]}
         /\ UNCHANGED <<isPlaying, wsStatus, timers, playbackIntervalRef, audioElements, audioSrc>>

\* ids not used by a closure that is alive, an active timer or the interval handle
FreeIds == (1 .. MaxPlays) \ ((DOMAIN frameIndex) \cup timers \cup {playbackIntervalRef})

\* playVideo with id as the identity of the new closure and of its interval
StartPass(id) ==
    \E a \in PlayOutcomes(PauseRewindAll(audioElements), 0) :
         /\ audioElements' = a
         /\ UNCHANGED audioSrc
         /\ timers' = (timers \ {playbackIntervalRef}) \cup {id}
         /\ playbackIntervalRef' = id
         /\ IF frames[1] = Hole
            THEN UNCHANGED playLoads
            ELSE playLoads' = playLoads \cup {[pass |-> id, frame |-> 0]}
         /\ frameIndex' = Closures(MapSet(frameIndex, id, 1), timers', playLoads')

\* (mutant) Play is offered and playVideo runs before generation is complete
PlayVideoNoGuard ==
    /\ mounted /\ ~isPlaying
    /\ Len(frames) > 0
    /\ FreeIds # {}
    /\ currentPlaybackFrame' = 0
    /\ currentSceneRef' = 0
    /\ currentScene' = 0
    /\ userStopped' = FALSE
    /\ StartPass(CHOOSE id \in FreeIds : \A other \in FreeIds : id <= other)
    /\ isPlaying' = TRUE
    /\ last' = [Quiet EXCEPT !.paused = TRUE,
                             !.play = IF Len(audioElements) > 0 THEN 0 ELSE -1]
    /\ UNCHANGED <<mounted, editVars, fetchVars, wsVars, liveVars, isLoading, generatedData,
                   frameCount, totalFrames, wsStatus, isGenerationComplete>>

\* the Play button (rendered while generation is complete and nothing plays)
PlayVideo ==
    /\ mounted /\ isGenerationComplete /\ ~isPlaying
    /\ Len(frames) > 0
    /\ FreeIds # {}
    /\ currentPlaybackFrame' = 0
    /\ currentSceneRef' = 0
    /\ currentScene' = 0
    /\ userStopped' = FALSE
    /\ StartPass(CHOOSE id \in FreeIds : \A other \in FreeIds : id <= other)
    /\ isPlaying' = TRUE
    /\ last' = [Quiet EXCEPT !.paused = TRUE,
                             !.play = IF Len(audioElements) > 0 THEN 0 ELSE -1]
    /\ UNCHANGED <<mounted, editVars, fetchVars, wsVars, liveVars, isLoading, generatedData,
                   frameCount, totalFrames, wsStatus, isGenerationComplete>>

\* the interval timer of pass p fires
PlayTick(p) ==
    /\ p \in timers
    /\ \A l \in playLoads : frameIndex[p] - (IF l.pass = p THEN l.frame ELSE 0) < MaxLag
    /\ PlayFrame(p, frameIndex[p])
    /\ last' = [Quiet EXCEPT !.paused = (frameIndex[p] >= Len(frames)), !.tick = p]
    /\ UNCHANGED <<mounted, editVars, fetchVars, wsVars, liveVars, userStopped,
                   currentSceneRef, isLoading, generatedData, frameCount, totalFrames,
                   currentScene, isGenerationComplete, currentPlaybackFrame>>

\* (mutant) the hand-off starts the new track without stopping the others
SwitchAudioNoPause(s) ==
    IF s # currentSceneRef
    THEN /\ \E a \in PlayOutcomes(audioElements, s) : audioElements' = a
         /\ UNCHANGED audioSrc
         /\ currentSceneRef' = s
         /\ currentScene' = SetState(currentScene, s)
         /\ last' = [Quiet EXCEPT !.drew = "play",
                         !.play = IF s + 1 \in DOMAIN audioElements THEN s ELSE -1]
    ELSE /\ UNCHANGED <<audioElements, audioSrc, currentSceneRef, currentScene>>
         /\ last' = [Quiet EXCEPT !.drew = "play"]

\* (mutant) the hand-off runs on every frame, not only on a scene change
SwitchAudioAlways(s) ==
    /\ \E a \in PlayOutcomes(PauseRewindAll(audioElements), s) : audioElements' = a
    /\ UNCHANGED audioSrc
    /\ currentSceneRef' = s
    /\ currentScene' = SetState(currentScene, s)
    /\ last' = [Quiet EXCEPT !.drew = "play", !.paused = TRUE,
                    !.play = IF s + 1 \in DOMAIN audioElements THEN s ELSE -1]

\* (mutant) the hand-off records the new scene only once play() has resolved
SwitchAudioThen(s) ==
    IF s # currentSceneRef
    THEN /\ \E a \in PlayOutcomes(PauseRewindAll(audioElements), s) :
              /\ audioElements' = a
              /\ currentSceneRef' = (IF Playing(a) # {} THEN s ELSE currentSceneRef)
              /\ currentScene' = SetState(currentScene, currentSceneRef')
         /\ UNCHANGED audioSrc
         /\ last' = [Quiet EXCEPT !.drew = "play", !.paused = TRUE,
                         !.play = IF s + 1 \in DOMAIN audioElements THEN s ELSE -1]
    ELSE /\ UNCHANGED <<audioElements, audioSrc, currentSceneRef, currentScene>>
         /\ last' = [Quiet EXCEPT !.drew = "play"]

\* the audio hand-off of img.onload for the computed scene s
SwitchAudio(s) ==
    IF s # currentSceneRef
    THEN /\ \E a \in PlayOutcomes(PauseRewindAll(audioElements), s) : audioElements' = a
         /\ UNCHANGED audioSrc
         /\ currentSceneRef' = s
         /\ currentScene' = SetState(currentScene, s)
         /\ last' = [Quiet EXCEPT !.drew = "play", !.paused = TRUE,
                         !.play = IF s + 1 \in DOMAIN audioElements THEN s ELSE -1]
    ELSE /\ UNCHANGED <<audioElements, audioSrc, currentSceneRef, currentScene>>
         /\ last' = [Quiet EXCEPT !.drew = "play"]

\* img.onload of playFrame: draw, then follow the scene of the closure's frameIndex
PlayImgLoad(l) ==
    /\ l \in playLoads
    /\ playLoads' = playLoads \ {l}
    /\ currentPlaybackFrame' = SetState(currentPlaybackFrame, frameIndex[l.pass])
    /\ SwitchAudio(SceneIndex(frameIndex[l.pass]))
    /\ frameIndex' = Closures(frameIndex, timers, playLoads')
    /\ UNCHANGED <<mounted, editVars, fetchVars, wsVars, liveVars, playbackIntervalRef, timers,
                   userStopped, isLoading, generatedData, frameCount,
                   totalFrames, wsStatus, isGenerationComplete, isPlaying>>

\* (mutant) stopVideo forgets the interval handle without clearing the interval
StopVideoLeak ==
    /\ mounted /\ isGenerationComplete /\ isPlaying
    /\ timers' = timers
    /\ playbackIntervalRef' = 0
    /\ isPlaying' = FALSE
    /\ audioElements' = PauseRewindAll(audioElements)
    /\ UNCHANGED audioSrc
    /\ wsStatus' = "Playback stopped. Click Play to watch again."
    /\ userStopped' = TRUE
    /\ last' = [Quiet EXCEPT !.paused = TRUE]
    /\ frameIndex' = Closures(frameIndex, timers', playLoads)
    /\ UNCHANGED <<mounted, editVars, fetchVars, wsVars, liveVars, playLoads,
                   currentSceneRef, isLoading, generatedData, frameCount, totalFrames,
                   currentScene, isGenerationComplete, currentPlaybackFrame>>

\* the Stop button (rendered while playing)
StopVideo ==
    /\ mounted /\ isGenerationComplete /\ isPlaying
    /\ timers' = (IF playbackIntervalRef # 0 THEN timers \ {playbackIntervalRef} ELSE timers)
    /\ playbackIntervalRef' = 0
    /\ isPlaying' = FALSE
    /\ audioElements' = PauseRewindAll(audioElements)
    /\ UNCHANGED audioSrc
    /\ wsStatus' = "Playback stopped. Click Play to watch again."
    /\ userStopped' = TRUE
    /\ last' = [Quiet EXCEPT !.paused = TRUE]
    /\ frameIndex' = Closures(frameIndex, timers', playLoads)
    /\ UNCHANGED <<mounted, editVars, fetchVars, wsVars, liveVars, playLoads,
                   currentSceneRef, isLoading, generatedData, frameCount, totalFrames,
                   currentScene, isGenerationComplete, currentPlaybackFrame>>

(* ------------------------------- unmount ------------------------------- *)
\* the cleanup of the second effect
Unmount ==
    /\ mounted
    /\ mounted' = FALSE
    /\ wsState' = (IF wsState \in {"connecting", "open"} THEN "closing" ELSE wsState)
    /\ timers' = (IF playbackIntervalRef # 0 THEN timers \ {playbackIntervalRef} ELSE timers)
    /\ audioElements' = [i \in DOMAIN audioElements |-> "released"]
    /\ audioSrc' = [i \in DOMAIN audioSrc |-> 0]
    /\ last' = [Quiet EXCEPT !.paused = TRUE]
    /\ frameIndex' = Closures(frameIndex, timers', playLoads)
    /\ UNCHANGED <<editVars, fetchVars, wsCreated, sent, request, msgCount, terminalSeen, liveVars,
                   playbackIntervalRef, playLoads, userStopped,
                   currentSceneRef, reactVars>>

(* ---------------------------- specifications --------------------------- *)
Next ==
    \/ AutoStart
    \/ \E n \in {0, MaxScenes} : FetchOk(n)
    \/ FetchFail
    \/ WsOpen
    \/ \E m \in Messages : WsMessage(m)
    \/ WsError
    \/ ServerClose
    \/ WsClose
    \/ \E u \in BagToSet(readers) : ReaderLoadEnd(u)
    \/ \E l \in BagToSet(liveLoads) : ImgDone(l)
    \/ AnimationFrame
    \/ PlayVideo
    \/ \E p \in timers : PlayTick(p)
    \/ \E l \in playLoads : PlayImgLoad(l)
    \/ StopVideo
    \/ Unmount

Spec == Init /\ [][Next]_vars

\* pending callbacks run: every FileReader started from a Blob fires onloadend,
\* every Image given a data URL fires onload or onerror, and a requested
\* animation frame is delivered
FairSpec ==
    /\ Spec
    /\ WF_vars(\E u \in BagToSet(readers) : ReaderLoadEnd(u))
    /\ WF_vars(\E l \in BagToSet(liveLoads) : ImgDone(l))
    /\ WF_vars(AnimationFrame)

(* ------------------ streaming with unique sequence indices ------------- *)
\* the server sends each frame index at most once
WsMessageUnique(m) ==
    /\ m.type = "frame" => \A u \in received : u.frame # m.frame_index
    /\ WsMessage(m)

NextUnique ==
    \/ AutoStart
    \/ \E n \in {0, MaxScenes} : FetchOk(n)
    \/ FetchFail
    \/ WsOpen
    \/ \E m \in Messages : WsMessageUnique(m)
    \/ WsError
    \/ ServerClose
    \/ WsClose
    \/ \E u \in BagToSet(readers) : ReaderLoadEnd(u)
    \/ \E l \in BagToSet(liveLoads) : ImgDone(l)
    \/ AnimationFrame
    \/ PlayVideo
    \/ \E p \in timers : PlayTick(p)
    \/ \E l \in playLoads : PlayImgLoad(l)
    \/ StopVideo
    \/ Unmount

SpecUnique == Init /\ [][NextUnique]_vars

(* ------------------- playback of a completed generation ---------------- *)
\* The session after a generation of L frames with n scenes: the frames arrived
\* in order, each was drawn and archived, or skipped (its image failed to decode,
\* which leaves an archive hole), before done{total_frames: L} was processed
\* and the channel closed.
Generated(L, n, skipped) ==
    /\ mounted = TRUE /\ hasPrompt = TRUE
    /\ fetchState = "ok" /\ fetchAttempts = 1
    /\ isLoading = FALSE /\ generatedData = n
    /\ audioElements = [i \in 1 .. n |-> "ready"]
    /\ audioSrc = [i \in 1 .. n |-> i]
    /\ wsState = "closed" /\ wsCreated = 1 /\ sent = 1 /\ msgCount = L + 1
    /\ request = Request(n)
    /\ terminalSeen = TRUE
    /\ readers = EmptyBag /\ frameQueue = EmptyMap
    /\ nextFrameToDraw = L /\ isDrawing = FALSE /\ liveLoads = EmptyBag
    /\ rafScheduled = FALSE
    /\ frames = [k \in 1 .. L |-> IF (k - 1) \in skipped THEN Hole ELSE Url(k - 1, "jpeg")]
    /\ canvasSize = (IF 0 \in skipped THEN -1 ELSE 0)
    /\ drawn = SelectSeq([k \in 1 .. L |-> k - 1], LAMBDA i : i \notin skipped)
    /\ received = {Url(i, IF i \in skipped THEN "notimage" ELSE "jpeg") : i \in 0 .. (L - 1)}
    /\ reordered = FALSE
    /\ currentSceneRef = 0
    /\ frameCount = L /\ totalFrames = L /\ wsStatus = "Connection closed"
    /\ currentScene = 0
    /\ isGenerationComplete = TRUE /\ isPlaying = FALSE /\ currentPlaybackFrame = 0
    /\ playbackIntervalRef = 0 /\ timers = {} /\ frameIndex = EmptyMap
    /\ playLoads = {} /\ userStopped = FALSE
    /\ centerIndex = 0 /\ currentFrame = 0
    /\ last = Quiet

\* the archive ends Window frames after the first scene boundary; either every
\* frame was archived, or those up to Window frames before the boundary were skipped
InitPlayback ==
    \E n \in 1 .. MaxScenes, skipped \in {{}, 0 .. (Switch1 - Window - 1)} :
        Generated(Switch1 + Window, n, skipped)

NextPlayback ==
    \/ PlayVideo
    \/ \E p \in timers : PlayTick(p)
    \/ \E l \in playLoads : PlayImgLoad(l)
    \/ StopVideo

SpecPlayback == InitPlayback /\ [][NextPlayback]_vars

(* ------------------------- the end-to-end scenario --------------------- *)
\* a scenes response with 2 scenes, then the frames 0 .. 49 in order and
\* done{total_frames: 50}; every frame was drawn and archived
InitScenario == Generated(50, 2, {})

SpecScenario == InitScenario /\ [][NextPlayback]_vars

(* ------------------- playback across every scene boundary -------------- *)
Boundaries == {Switch1, Switch2, Switch3, Switch4}
NearBoundary(f) == \E b \in Boundaries : f >= b - Window /\ f < b + Window

\* a generation of the requested NumScenes scenes that ended Window frames after
\* the last boundary; frame 0 and the frames within Window of a boundary were
\* archived, the others skipped
InitFilm ==
    Generated(Switch4 + Window, NumScenes,
              {f \in 1 .. (Switch4 + Window - 1) : ~NearBoundary(f)})

SpecFilm == InitFilm /\ [][NextPlayback]_vars

\* the interval timer keeps firing until it is cleared, and every image load
\* started from a data URL completes
FairFilm ==
    /\ SpecFilm
    /\ WF_vars(\E p \in timers : PlayTick(p))
    /\ WF_vars(\E l \in playLoads : PlayImgLoad(l))

(* --------------- live display across the first boundary ---------------- *)
\* The session in the middle of a stream: the frames 0 .. K - 1 arrived in order
\* and were drawn and archived, the channel is open, and ws.onmessage has started
\* the FileReader of each frame message in pend.
Streaming(K, n, pend) ==
    /\ mounted = TRUE /\ hasPrompt = TRUE
    /\ fetchState = "ok" /\ fetchAttempts = 1
    /\ isLoading = FALSE /\ generatedData = n
    /\ audioElements = [i \in 1 .. n |-> "ready"]
    /\ audioSrc = [i \in 1 .. n |-> i]
    /\ wsState = "open" /\ wsCreated = 1 /\ sent = 1 /\ msgCount = K + Cardinality(pend)
    /\ request = Request(n)
    /\ terminalSeen = FALSE
    /\ readers = SetToBag(pend) /\ frameQueue = EmptyMap
    /\ nextFrameToDraw = K /\ isDrawing = FALSE /\ liveLoads = EmptyBag
    /\ rafScheduled = FALSE
    /\ frames = [k \in 1 .. K |-> Url(k - 1, "jpeg")]
    /\ canvasSize = 0
    /\ drawn = [k \in 1 .. K |-> k - 1]
    /\ received = {Url(i, "jpeg") : i \in 0 .. (K - 1)} \cup pend
    /\ reordered = FALSE
    /\ currentSceneRef = 0
    /\ frameCount = ((K - 1) \div StatusEvery) * StatusEvery + 1
    /\ totalFrames = 0 /\ wsStatus = "Generating frame N..."
    /\ currentScene = 0
    /\ isGenerationComplete = FALSE /\ isPlaying = FALSE /\ currentPlaybackFrame = 0
    /\ playbackIntervalRef = 0 /\ timers = {} /\ frameIndex = EmptyMap
    /\ playLoads = {} /\ userStopped = FALSE
    /\ centerIndex = 0 /\ currentFrame = 0
    /\ last = Quiet

\* the frames whose conversion is pending: the last one before the first scene
\* boundary and the first ones after it, each a JPEG or bytes that are no image
LiveFrames == (Switch1 - 1) .. (Switch1 + Window - 2)

InitLive ==
    \E n \in 1 .. MaxScenes, d \in [LiveFrames -> {"jpeg", "notimage"}] :
        Streaming(Switch1 - 1, n, {Url(f, d[f]) : f \in LiveFrames})

NextLive ==
    \/ \E u \in BagToSet(readers) : ReaderLoadEnd(u)
    \/ \E l \in BagToSet(liveLoads) : ImgDone(l)
    \/ AnimationFrame
    \/ ServerClose
    \/ WsClose
    \/ Unmount

SpecLive == InitLive /\ [][NextLive]_vars

(* ------------- the earlier streaming revision of the view -------------- *)
\* In this revision ws.onmessage decodes and draws every frame as it arrives
\* (no frame buffer, no cursor) and switches the audio while streaming.
\* currentScene as its img.onload reads it: the handler closes over the render
\* that ran the auto-start effect, where currentScene is its initial useState(0)
ClosureCurrentScene == 0

\* the scene chain of the earlier revision
EarlierSceneIndex(f) ==
    IF f >= Switch4 THEN 4
    ELSE IF f >= Switch3 THEN 3
    ELSE IF f >= Switch2 THEN 2
    ELSE IF f >= Switch1 THEN 1
    ELSE 0

\* The session in the middle of a stream: the frames 0 .. K - 1 arrived and were
\* drawn in order, and the timeout of ws.onopen called play() on the first
\* handle, which is now in state a0.
EarlierStreaming(K, n, a0) ==
    /\ mounted = TRUE /\ hasPrompt = TRUE
    /\ fetchState = "ok" /\ fetchAttempts = 1
    /\ isLoading = FALSE /\ generatedData = n
    /\ audioElements = [i \in 1 .. n |-> IF i = 1 THEN a0 ELSE "ready"]
    /\ audioSrc = [i \in 1 .. n |-> i]
    /\ wsState = "open" /\ wsCreated = 1 /\ sent = 1 /\ msgCount = K
    /\ request = Request(n)
    /\ terminalSeen = FALSE
    /\ readers = EmptyBag /\ frameQueue = EmptyMap
    /\ nextFrameToDraw = 0 /\ isDrawing = FALSE /\ liveLoads = EmptyBag
    /\ rafScheduled = FALSE
    /\ frames = [k \in 1 .. K |-> Url(k - 1, "png")]
    /\ canvasSize = 0
    /\ drawn = [k \in 1 .. K |-> k - 1]
    /\ received = {Url(i, "jpeg") : i \in 0 .. (K - 1)}
    /\ reordered = FALSE
    /\ currentSceneRef = 0
    /\ frameCount = K /\ totalFrames = 0 /\ wsStatus = "Generating frame N..."
    /\ currentScene = 0
    /\ isGenerationComplete = FALSE /\ isPlaying = FALSE /\ currentPlaybackFrame = 0
    /\ playbackIntervalRef = 0 /\ timers = {} /\ frameIndex = EmptyMap
    /\ playLoads = {} /\ userStopped = FALSE
    /\ centerIndex = 0 /\ currentFrame = 0
    /\ last = Quiet

\* the 'frame' branch of the earlier ws.onmessage for the next frame of the
\* stream, with payload d: an Image is created for it at once
EarlierOnFrame(d) ==
    /\ wsState = "open" /\ mounted
    /\ msgCount < Switch1 + Window
    /\ msgCount' = msgCount + 1
    /\ liveLoads' = liveLoads (+)
           SetToBag({[nextFrame |-> msgCount, imageUrl |-> Url(msgCount, d)]})
    /\ received' = received \cup {Url(msgCount, d)}
    /\ last' = [Quiet EXCEPT !.msg = "handled"]
    /\ UNCHANGED <<mounted, editVars, fetchVars, wsState, wsCreated, sent, request, terminalSeen,
                   readers, frameQueue, nextFrameToDraw, isDrawing, rafScheduled, frames,
                   canvasSize, drawn, reordered, playVars, reactVars, audioElements,
                   audioSrc, currentSceneRef>>

\* img.onload of the earlier ws.onmessage: draw, store the canvas as a blob (the
\* toBlob callback), then switch the audio when the frame's scene differs from
\* the currentScene the handler sees
EarlierImgOnload(l) ==
    /\ canvasSize' = (IF l.nextFrame = 0 THEN 0 ELSE canvasSize)
    /\ drawn' = Append(drawn, l.nextFrame)
    /\ frames' = Append(frames, Url(l.nextFrame, "png"))
    /\ frameCount' = SetState(frameCount, l.nextFrame + 1)
    /\ wsStatus' = SetState(wsStatus, "Generating frame N...")
    /\ IF EarlierSceneIndex(l.nextFrame) # ClosureCurrentScene
       THEN /\ \E a \in PlayOutcomes(PauseRewindAll(audioElements),
                                     EarlierSceneIndex(l.nextFrame)) :
                  audioElements' = a
            /\ currentScene' = SetState(currentScene, EarlierSceneIndex(l.nextFrame))
            /\ last' = [Quiet EXCEPT !.drew = "live", !.paused = TRUE,
                            !.play = IF EarlierSceneIndex(l.nextFrame) + 1
                                          \in DOMAIN audioElements
                                     THEN EarlierSceneIndex(l.nextFrame) ELSE -1]
       ELSE /\ UNCHANGED <<audioElements, currentScene>>
            /\ last' = [Quiet EXCEPT !.drew = "live"]

\* img.onerror of the earlier ws.onmessage: only logs
EarlierImgOnerror(l) ==
    /\ last' = Quiet
    /\ UNCHANGED <<canvasSize, drawn, frames, frameCount, wsStatus, audioElements,
                   currentScene>>

\* the decode of an image created by the earlier ws.onmessage completes
EarlierImgDone(l) ==
    /\ BagIn(l, liveLoads)
    /\ liveLoads' = liveLoads (-) SetToBag({l})
    /\ IF l.imageUrl.data = "jpeg" THEN EarlierImgOnload(l) ELSE EarlierImgOnerror(l)
    /\ UNCHANGED <<mounted, editVars, fetchVars, wsVars, readers, frameQueue, nextFrameToDraw,
                   isDrawing, rafScheduled, received, reordered, playVars, audioSrc,
                   currentSceneRef, isLoading, generatedData, totalFrames,
                   isGenerationComplete, isPlaying, currentPlaybackFrame>>

\* the stream has reached the last frame of scene 0; the first handle plays, or
\* its play() was rejected
InitEarlier ==
    \E n \in 1 .. MaxScenes, a0 \in {"playing", "ready"} :
        EarlierStreaming(Switch1 - 1, n, a0)

NextEarlier ==
    \/ \E d \in {"jpeg", "notimage"} : EarlierOnFrame(d)
    \/ \E l \in BagToSet(liveLoads) : EarlierImgDone(l)

SpecEarlier == InitEarlier /\ [][NextEarlier]_vars

(* ------------------------------ the editor ---------------------------- *)
\* Edit.tsx receives the archive, the audio URLs and totalFrames of the Video
\* view and plays one chunk of FRAMES_PER_CHUNK frames at a time.
FRAMES_PER_CHUNK == 96

\* the value of x % 0 in JavaScript, and of any arithmetic on it
NaN == -1

\* Math.ceil(totalFrames / FRAMES_PER_CHUNK)
numChunks == (totalFrames + FRAMES_PER_CHUNK - 1) \div FRAMES_PER_CHUNK

\* a % b of JavaScript for a >= 0
JsMod(a, b) == IF a = NaN \/ b = 0 THEN NaN ELSE a % b

\* (c + 1) % numChunks and (c - 1 + numChunks) % numChunks
GoRightIndex(c) == JsMod(IF c = NaN THEN NaN ELSE c + 1, numChunks)
GoLeftIndex(c) == JsMod(IF c = NaN THEN NaN ELSE c - 1 + numChunks, numChunks)

\* (mutant) chunks of one frame less
StartFrameShort(c) == IF c = NaN THEN NaN ELSE c * (FRAMES_PER_CHUNK - 1)

\* centerIndex * FRAMES_PER_CHUNK
StartFrame(c) == IF c = NaN THEN NaN ELSE c * FRAMES_PER_CHUNK

\* Math.min(startFrame + FRAMES_PER_CHUNK, totalFrames)
EndFrame(c) ==
    IF c = NaN THEN NaN
    ELSE IF StartFrame(c) + FRAMES_PER_CHUNK < totalFrames
         THEN StartFrame(c) + FRAMES_PER_CHUNK ELSE totalFrames

\* drawFrame(f): the pending image loads after the call; it returns at once
\* without a canvas or when frames[f] is undefined
DrawFrame(f, loads) ==
    IF mounted /\ f # NaN /\ f >= 0 /\ f < Len(frames) /\ frames[f + 1] # Hole
    THEN loads \cup {[frame |-> f]}
    ELSE loads

\* audio.pause() on the handle of chunk c, if there is one
PauseOne(a, c) == IF c + 1 \in DOMAIN a THEN [a EXCEPT ![c + 1] = Pause(a[c + 1])] ELSE a

\* (mutant) the end of the chunk leaves the interval running
EditPlayFrameOn(p, cl, a, tm, ref) ==
    IF cl.frameIndex >= cl.endFrame
    THEN /\ isPlaying' = SetState(isPlaying, FALSE)
         /\ timers' = tm
         /\ playbackIntervalRef' = ref
         /\ audioElements' = PauseOne(a, cl.centerIndex)
         /\ playLoads' = DrawFrame(cl.startFrame, playLoads)
         /\ currentFrame' = SetState(currentFrame, cl.startFrame)
         /\ frameIndex' = [q \in (DOMAIN frameIndex \cup {p}) \cap timers' |->
                              IF q = p THEN cl ELSE frameIndex[q]]
    ELSE /\ isPlaying' = SetState(isPlaying, TRUE)
         /\ timers' = tm
         /\ playbackIntervalRef' = ref
         /\ audioElements' = a
         /\ playLoads' = DrawFrame(cl.frameIndex, playLoads)
         /\ currentFrame' = SetState(currentFrame, cl.frameIndex)
         /\ frameIndex' = [q \in (DOMAIN frameIndex \cup {p}) \cap timers' |->
                              IF q = p THEN [cl EXCEPT !.frameIndex = cl.frameIndex + 1]
                              ELSE frameIndex[q]]

\* playFrame() of the playChunk closure cl of pass p, run when the audio
\* handles are a, the active timers tm and the interval handle ref
EditPlayFrame(p, cl, a, tm, ref) ==
    IF cl.frameIndex >= cl.endFrame
    THEN /\ isPlaying' = SetState(isPlaying, FALSE)
         /\ timers' = (IF ref # 0 THEN tm \ {ref} ELSE tm)
         /\ playbackIntervalRef' = 0
         /\ audioElements' = PauseOne(a, cl.centerIndex)
         /\ playLoads' = DrawFrame(cl.startFrame, playLoads)
         /\ currentFrame' = SetState(currentFrame, cl.startFrame)
         /\ frameIndex' = [q \in (DOMAIN frameIndex \cup {p}) \cap timers' |->
                              IF q = p THEN cl ELSE frameIndex[q]]
    ELSE /\ isPlaying' = SetState(isPlaying, TRUE)
         /\ timers' = tm
         /\ playbackIntervalRef' = ref
         /\ audioElements' = a
         /\ playLoads' = DrawFrame(cl.frameIndex, playLoads)
         /\ currentFrame' = SetState(currentFrame, cl.frameIndex)
         /\ frameIndex' = [q \in (DOMAIN frameIndex \cup {p}) \cap timers' |->
                              IF q = p THEN [cl EXCEPT !.frameIndex = cl.frameIndex + 1]
                              ELSE frameIndex[q]]

\* what no handler of the editor changes
editFixed == <<mounted, fetchVars, wsVars, readers, frameQueue, nextFrameToDraw,
               isDrawing, liveLoads, rafScheduled, frames, canvasSize, drawn, received,
               reordered, userStopped, isLoading, generatedData, frameCount, totalFrames,
               wsStatus, currentScene, isGenerationComplete, currentPlaybackFrame,
               audioSrc, currentSceneRef>>

\* fewer than MaxLag image loads are pending (the handlers that call drawFrame
\* are taken only then)
LoadsBounded == Cardinality(playLoads) < MaxLag

\* playChunk (the Play button or the space key while nothing plays)
PlayChunk ==
    /\ mounted /\ ~isPlaying
    /\ LoadsBounded
    /\ Len(frames) # 0
    /\ \E a \in PlayOutcomes(PauseRewindAll(audioElements), centerIndex) :
         LET id == CHOOSE i \in (1 .. MaxPlays) \ (timers \ {playbackIntervalRef}) :
                       \A j \in (1 .. MaxPlays) \ (timers \ {playbackIntervalRef}) : i <= j
         IN  EditPlayFrame(id,
                           [frameIndex |-> StartFrame(centerIndex),
                            startFrame |-> StartFrame(centerIndex),
                            endFrame |-> EndFrame(centerIndex),
                            centerIndex |-> centerIndex],
                           a, (timers \ {playbackIntervalRef}) \cup {id}, id)
    /\ last' = [Quiet EXCEPT !.paused = TRUE,
                             !.play = IF centerIndex + 1 \in DOMAIN audioElements
                                      THEN centerIndex ELSE -1]
    /\ UNCHANGED <<editFixed, centerIndex>>

\* the interval timer of pass p fires
EditTick(p) ==
    /\ p \in timers
    /\ LoadsBounded
    /\ EditPlayFrame(p, frameIndex[p], audioElements, timers, playbackIntervalRef)
    /\ last' = [Quiet EXCEPT !.tick = p]
    /\ UNCHANGED <<editFixed, centerIndex>>

\* img.onload of drawFrame: size the canvas and draw
EditImgLoad(l) ==
    /\ l \in playLoads
    /\ playLoads' = playLoads \ {l}
    /\ last' = [Quiet EXCEPT !.drew = "play"]
    /\ UNCHANGED <<editFixed, centerIndex, currentFrame, isPlaying, playbackIntervalRef,
                   timers, frameIndex, audioElements>>

\* stopPlayback (the Stop button or the space key while playing)
StopPlayback ==
    /\ mounted /\ isPlaying
    /\ LoadsBounded
    /\ timers' = (IF playbackIntervalRef # 0 THEN timers \ {playbackIntervalRef} ELSE timers)
    /\ playbackIntervalRef' = 0
    /\ isPlaying' = FALSE
    /\ audioElements' = PauseRewindAll(audioElements)
    /\ playLoads' = DrawFrame(StartFrame(centerIndex), playLoads)
    /\ currentFrame' = StartFrame(centerIndex)
    /\ frameIndex' = [q \in (DOMAIN frameIndex) \cap timers' |-> frameIndex[q]]
    /\ last' = [Quiet EXCEPT !.paused = TRUE]
    /\ UNCHANGED <<editFixed, centerIndex>>

\* (mutant) the effect of a chunk change leaves the interval running
ChunkChangeEffectKeep(c) ==
    /\ playLoads' = DrawFrame(StartFrame(c), playLoads)
    /\ currentFrame' = StartFrame(c)
    /\ UNCHANGED <<timers, playbackIntervalRef, frameIndex>>
    /\ audioElements' = PauseRewindAll(audioElements)
    /\ isPlaying' = FALSE
    /\ last' = [Quiet EXCEPT !.paused = TRUE]

\* the effect that runs when centerIndex has changed to c
ChunkChangeEffect(c) ==
    /\ playLoads' = DrawFrame(StartFrame(c), playLoads)
    /\ currentFrame' = StartFrame(c)
    /\ timers' = (IF playbackIntervalRef # 0 THEN timers \ {playbackIntervalRef} ELSE timers)
    /\ playbackIntervalRef' = 0
    /\ frameIndex' = [q \in (DOMAIN frameIndex) \cap timers' |-> frameIndex[q]]
    /\ audioElements' = PauseRewindAll(audioElements)
    /\ isPlaying' = FALSE
    /\ last' = [Quiet EXCEPT !.paused = TRUE]

\* setCenterIndex(c): React re-renders and runs the effect only when the value
\* differs from the current one
SetCenterIndex(c) ==
    /\ mounted
    /\ LoadsBounded
    /\ centerIndex' = c
    /\ IF c # centerIndex
       THEN ChunkChangeEffect(c)
       ELSE /\ last' = Quiet
            /\ UNCHANGED <<playLoads, currentFrame, timers, playbackIntervalRef, frameIndex,
                           audioElements, isPlaying>>
    /\ UNCHANGED editFixed

\* the previous / next buttons and the ArrowLeft / ArrowRight keys
GoLeft == SetCenterIndex(GoLeftIndex(centerIndex))
GoRight == SetCenterIndex(GoRightIndex(centerIndex))

\* a frame the Video view archived: the frames within Window of the start of
\* the archive, of a chunk boundary or of the end; the others were skipped
EditArchived(f, T) == f < Window \/ f >= T - Window \/ NearBoundary(f)

\* The editor after its mount effects ran, opened on an archive of T frames
\* with n audio URLs: chunk 0 is selected and drawFrame(0) was called.  What the
\* Video view does not hand over (its channel, frame buffer and cursor) is as
\* in Init.
Editing(T, n) ==
    /\ mounted = TRUE /\ hasPrompt = TRUE
    /\ fetchState = "idle" /\ fetchAttempts = 0
    /\ isLoading = FALSE /\ generatedData = -1
    /\ audioElements = [i \in 1 .. n |-> "ready"]
    /\ audioSrc = [i \in 1 .. n |-> i]
    /\ wsState = "none" /\ wsCreated = 0 /\ sent = 0 /\ msgCount = 0
    /\ request = NoRequest
    /\ terminalSeen = FALSE
    /\ readers = EmptyBag /\ frameQueue = EmptyMap
    /\ nextFrameToDraw = 0 /\ isDrawing = FALSE /\ liveLoads = EmptyBag
    /\ rafScheduled = FALSE
    /\ frames = [k \in 1 .. T |-> IF EditArchived(k - 1, T) THEN Url(k - 1, "jpeg") ELSE Hole]
    /\ canvasSize = (IF T > 0 THEN 0 ELSE -1)
    /\ drawn = <<>> /\ received = {} /\ reordered = FALSE
    /\ currentSceneRef = 0
    /\ frameCount = 0 /\ totalFrames = T /\ wsStatus = ""
    /\ currentScene = 0
    /\ isGenerationComplete = FALSE /\ isPlaying = FALSE /\ currentPlaybackFrame = 0
    /\ playbackIntervalRef = 0 /\ timers = {} /\ frameIndex = EmptyMap
    /\ playLoads = (IF T > 0 THEN {[frame |-> 0]} ELSE {})
    /\ userStopped = FALSE
    /\ centerIndex = 0 /\ currentFrame = 0
    /\ last = Quiet

\* the editor opened with no frames, on a generation that ended Window frames
\* after the first boundary, or on a full generation of NumScenes chunks
InitEdit ==
    \/ Editing(0, 0)
    \/ Editing(Switch1 + Window, MaxScenes)
    \/ Editing(NumScenes * FRAMES_PER_CHUNK, NumScenes)

NextEdit ==
    \/ PlayChunk
    \/ \E p \in timers : EditTick(p)
    \/ \E l \in playLoads : EditImgLoad(l)
    \/ StopPlayback
    \/ GoLeft
    \/ GoRight

SpecEdit == InitEdit /\ [][NextEdit]_vars

(* ------------------------------- claims -------------------------------- *)
\* C1: the frames processFrameQueue draws have strictly increasing sequence
\* indices, whatever the arrival order and the interleaving of arrivals,
\* conversions and decode completions: none is drawn after a larger one, none twice.
C1_DrawnStrictlyIncreasing ==
    \A i, j \in 1 .. Len(drawn) : i < j => drawn[i] < drawn[j]

\* frames arrived out of sequence order and all of them have been drawn
C1_Witness == reordered /\ Len(drawn) = MaxFrames

\* nothing of the live pipeline is pending and the canvas is there
Quiescent ==
    /\ CanvasReady
    /\ readers = EmptyBag /\ liveLoads = EmptyBag /\ ~rafScheduled

\* C2: a frame whose payload is malformed at any decoding step is skipped and the
\* cursor moves past it: once the frames 0 .. k have all been received and the
\* pipeline has nothing pending, nextFrameToDraw is beyond k.
C2_BadFrameSkipped ==
    Quiescent =>
        \A k \in FrameIdx :
            (\A i \in 0 .. k : \E r \in received : r.frame = i) => nextFrameToDraw > k

\* C3: at most one audio handle plays, and after every play() call every other
\* handle is paused and rewound.
C3_OneTrackAtATime ==
    /\ Cardinality(Playing(audioElements)) <= 1
    /\ last.play # -1 =>
         \A i \in DOMAIN audioElements : i # last.play + 1 => audioElements[i] = "ready"

\* a scene crossing has started the track of scene 1
C3_Witness ==
    /\ last.play = 1 /\ last.drew = "play"
    /\ Len(audioElements) >= 2 /\ audioElements[2] = "playing"

\* C4: from stopVideo until the next Play no handler draws a frame or calls play().
C4_NoDrawAfterStop ==
    userStopped => (last.drew = "no" /\ last.play = -1)

\* the frame messages received are exactly one decodable jpeg for each of 0 .. T-1
ExactlyFrames(T) ==
    /\ {r.frame : r \in received} = 0 .. (T - 1)
    /\ \A r \in received : r.data = "jpeg"

\* C5: when generation is complete (done{total_frames: T} processed after the
\* frames 0 .. T-1), the archive holds T entries.
C5_ArchiveCompleteAtDone ==
    (isGenerationComplete /\ ExactlyFrames(totalFrames)) => Len(frames) = totalFrames

\* C6: after the unmount no channel is connecting or open, no playback timer is
\* active and no audio handle plays.
C6_NothingRunsAfterUnmount ==
    ~mounted =>
        /\ wsState \notin {"connecting", "open"}
        /\ timers = {}
        /\ Playing(audioElements) = {}

\* C7: a playback image load whose computed scene is the active scene leaves
\* every audio handle alone (no pause, rewind or play); one whose scene differs
\* calls play() on that scene's handle only, and no other handle plays afterwards.
C7_ActivateIdempotent ==
    [][\A l \in playLoads :
         (playLoads' = playLoads \ {l}) =>
            LET s == SceneIndex(frameIndex[l.pass]) IN
            IF s = currentSceneRef
            THEN /\ audioElements' = audioElements
                 /\ last'.play = -1 /\ ~last'.paused
                 /\ currentSceneRef' = s
            ELSE /\ last'.play \in {s, -1}
                 /\ Playing(audioElements') \subseteq {s + 1}
                 /\ currentSceneRef' = s]_vars

\* a frame of scene 1 was drawn after the crossing and the track kept playing
C7_Witness ==
    /\ last.drew = "play" /\ last.play = -1 /\ ~last.paused
    /\ currentSceneRef = 1
    /\ Len(audioElements) >= 2 /\ audioElements[2] = "playing"

\* C8: once a done or an error message has been processed the channel is closing
\* or closed, and a message the server emits after it changes neither the frame
\* buffer, the pending conversions, the archive, the completion flag, the total
\* nor the status.
C8_IgnoredAfterTerminal ==
    /\ [](terminalSeen => wsState \in {"closing", "closed"})
    /\ [][(terminalSeen /\ msgCount' # msgCount) =>
            UNCHANGED <<frameQueue, readers, frames, isGenerationComplete, totalFrames,
                        wsStatus, terminalSeen>>]_vars

\* a message arrived after the terminal message and was discarded
C8_Witness == terminalSeen /\ last.msg = "discarded"

\* C9: the scene request is issued at most once, and after its failure there is
\* no audio handle, no channel and nothing sent.
C9_SingleAttempt ==
    /\ fetchAttempts <= 1
    /\ fetchState = "failed" =>
         /\ audioElements = <<>>
         /\ wsState = "none" /\ wsCreated = 0 /\ sent = 0

\* the request has failed
C9_Witness == fetchState = "failed" /\ fetchAttempts = 1 /\ ~isLoading

\* the statuses that tell the user of an error
ErrorStatuses == {"Error: message", "WebSocket error occurred"}

\* C10: after the scene request has failed the displayed status is an error message.
C10_FailureSurfaced ==
    (mounted /\ fetchState = "failed") => wsStatus \in ErrorStatuses

\* C11: the status set for a done or an error message stays the displayed status
\* across the close event that follows the session's own close().
C11_TerminalStatusKept ==
    [][(terminalSeen /\ wsState = "closing" /\ wsState' = "closed")
          => wsStatus' = wsStatus]_vars

\* C13: the boundary table sent on the channel has (number of scenes - 1) entries,
\* strictly increasing.
C13_BoundaryTable ==
    sent > 0 =>
        LET b == request.switch_frame_indices IN
        /\ Len(b) = Len(request.prompts) - 1
        /\ \A i, j \in 1 .. Len(b) : i < j => b[i] < b[j]

\* C16: when a playback image load draws frame f, the active scene afterwards is
\* the scene of f (so scene 1 becomes active when frame Switch1 is drawn, not before).
C16_AudioFollowsDrawnFrame ==
    [][\A l \in playLoads :
         (playLoads' = playLoads \ {l}) => currentSceneRef' = SceneIndex(l.frame)]_vars

\* C17: a playback pass never has more than one image decode in flight, and the
\* load that completes (and draws) is the earliest started of its pass that is
\* still pending: no frame is drawn before a frame started on an earlier tick.
C17_PlaybackDrawOrder ==
    /\ [](\A p \in DOMAIN frameIndex : Cardinality({l \in playLoads : l.pass = p}) <= 1)
    /\ [][\A l \in playLoads :
            (playLoads' = playLoads \ {l}) =>
                \A l2 \in playLoads : l2.pass = l.pass => l.frame <= l2.frame]_vars

\* the compositor consumes the entry at the cursor: a decode completes
Consumed(i) ==
    i = nextFrameToDraw /\ isDrawing /\ ~isDrawing' /\ nextFrameToDraw' = i + 1

\* a conversion of a later message with the same sequence index replaces entry i
\* (sequence indices are unique per session in the data model)
Resubmitted(i) ==
    \E u \in BagToSet(readers) :
        u.frame = i /\ readers' = readers (-) SetToBag({u}) /\ frameQueue'[i] = u

BufferStep ==
    /\ \A i \in DOMAIN frameQueue :
          i >= nextFrameToDraw =>
              \/ (i \in DOMAIN frameQueue' /\ (frameQueue'[i] = frameQueue[i] \/ Resubmitted(i)))
              \/ Consumed(i)
    /\ ((DOMAIN frameQueue) \ (DOMAIN frameQueue')) \subseteq {nextFrameToDraw}
    /\ (nextFrameToDraw \notin DOMAIN frameQueue) =>
          /\ nextFrameToDraw' = nextFrameToDraw
          /\ (DOMAIN frameQueue) \subseteq (DOMAIN frameQueue')

\* C19: an entry stored under an index at or beyond the cursor stays in the frame
\* buffer until a decode completion consumes it at the cursor; only the entry at
\* the cursor is ever removed; and while the cursor's entry is absent no step
\* moves the cursor or removes an entry.
C19_NoFrameDropped == [][BufferStep]_vars

\* a frame that arrived ahead of the cursor is still buffered after the frame
\* before it was consumed
C19_Witness ==
    reordered /\ nextFrameToDraw = 1 /\ 1 \in DOMAIN frameQueue /\ ~isDrawing

\* C20: a channel exists only after the scene request succeeded; playback runs
\* only after a done message was processed; and once the channel is closing or
\* closed without done having been processed, generation never becomes complete
\* (so Play is never offered).
C20_Lifecycle ==
    /\ []((wsCreated > 0 \/ wsState # "none") => fetchState = "ok")
    /\ []((isPlaying \/ timers # {} \/ playLoads # {})
             => (isGenerationComplete /\ terminalSeen))
    /\ []((isGenerationComplete /\ mounted) => terminalSeen)
    /\ [][(wsState \in {"closing", "closed"} /\ ~isGenerationComplete)
             => ~isGenerationComplete']_vars

\* playback runs after the whole sequence request, stream, done
C20_Witness ==
    isPlaying /\ timers # {} /\ terminalSeen /\ fetchState = "ok" /\ wsState = "closed"

\* C12: in the end-to-end scenario the archive holds 50 frames, and when a full
\* playback pass has completed the audio has been switched to scene 1, once:
\* the active scene, 0 at Play, is 1 and its track is the one that was started.
C12_EndToEnd ==
    /\ Len(frames) = 50
    /\ (wsStatus = "Playback complete!" /\ playLoads = {}) =>
          /\ currentSceneRef = 1
          /\ \A i \in DOMAIN audioElements : i # 2 => audioElements[i] = "ready"

\* the number of boundaries of [96, 192, 288, 384] that are <= f
BoundariesUpTo(f) == Cardinality({b \in Boundaries : b <= f})

SceneClockStep ==
    \A l \in playLoads :
        (playLoads' = playLoads \ {l}) =>
            LET f == frameIndex[l.pass] IN
            /\ SceneIndex(f) = BoundariesUpTo(f)
            /\ currentSceneRef' = BoundariesUpTo(f)
            /\ currentSceneRef' \in 0 .. 4
            /\ (f = 95 => currentSceneRef' = 0)
            /\ (f = 96 => currentSceneRef' = 1)
            /\ (f = 383 => currentSceneRef' = 3)
            /\ (f = 384 => currentSceneRef' = 4)

\* C14: the scene the threshold chain computes for a frame index, at every image
\* load of a playback across all boundaries, is the number of boundaries of
\* [96, 192, 288, 384] that are <= it, lies in 0 .. 4, and is 0 for 95, 1 for 96,
\* 3 for 383 and 4 for 384.
C14_SceneLookup == [][SceneClockStep]_vars

\* the chain was evaluated for frame index 384
C14_Witness ==
    /\ last.drew = "play" /\ currentSceneRef = 4
    /\ \E p \in DOMAIN frameIndex : frameIndex[p] = Switch4

\* C15: the scene of a frame index is at least the scene of every smaller frame
\* index, and the scene of frame index 0 is 0 (for the frame indices a playback
\* across all boundaries reaches).
C15_SceneMonotone ==
    \A p \in DOMAIN frameIndex :
        \A f \in 0 .. frameIndex[p] :
            /\ SceneIndex(f) <= SceneIndex(frameIndex[p])
            /\ (f = 0 => SceneIndex(f) = 0)

\* playback has passed the last boundary
C15_Witness ==
    \E p \in DOMAIN frameIndex : frameIndex[p] > Switch4 /\ SceneIndex(frameIndex[p]) = 4

\* a timer tick of pass p at position f: one step forward, or the end of playback
TickStep ==
    \A p \in timers :
        last'.tick = p =>
            IF frameIndex[p] < Len(frames)
            THEN /\ p \in DOMAIN frameIndex'
                 /\ frameIndex'[p] = frameIndex[p] + 1
                 /\ isPlaying' /\ timers' = timers
            ELSE /\ timers' = {} /\ playbackIntervalRef' = 0
                 /\ ~isPlaying'
                 /\ Playing(audioElements') = {}

\* Play: a new pass starts at frame 0 with the track of scene 0
ReplayStep ==
    (~isPlaying /\ isPlaying') =>
        /\ currentSceneRef' = 0 /\ currentPlaybackFrame' = 0
        /\ last'.play = 0
        /\ Playing(audioElements') \subseteq {1}
        /\ \E p \in timers' :
              /\ timers' = {p} /\ playbackIntervalRef' = p
              /\ frameIndex'[p] = 1
              /\ (frames[1] # Hole => [pass |-> p, frame |-> 0] \in playLoads')

\* C18: every timer tick advances the playback position by exactly one (archive
\* holes included) until the position reaches the archive length; the tick at
\* the end clears the timer, resets the playing flag and leaves no audio handle
\* playing; every pass that was started ends; and after the end Play is offered
\* again and starts a pass at frame 0 with the track of scene 0.
C18_PlaybackTerminates ==
    /\ [][TickStep /\ ReplayStep]_vars
    /\ []((~isPlaying /\ wsStatus = "Playback complete!")
             => (mounted /\ isGenerationComplete /\ Len(frames) > 0 /\ timers = {}))
    /\ (isPlaying ~> ~isPlaying)

\* a pass ran to the end of the archive and Play was pressed again
C18_Witness ==
    isPlaying /\ wsStatus = "Playback complete!" /\ last.play = 0 /\ timers # {}

\* C21: the session sends on the channel only when the channel opens, one
\* message, made of the prompts in scene order and the boundary table
\* [96, 192, 288, 384]; an open (or once opened) channel has had exactly that
\* one message sent.
C21_SingleRequest ==
    /\ [][sent' # sent =>
            /\ wsState = "connecting" /\ wsState' = "open"
            /\ sent' = sent + 1
            /\ request'.prompts = [i \in 1 .. Len(audioElements) |-> i]
            /\ request'.switch_frame_indices = <<96, 192, 288, 384>>]_vars
    /\ [](sent <= 1 /\ sent <= wsCreated)
    /\ []((wsState = "open" \/ last.msg \in {"handled", "unexpected"}) => sent = 1)
    /\ [][sent = 1 => request' = request]_vars

\* the stream ran to its end after the one request
C21_Witness == sent = 1 /\ wsState = "closed" /\ msgCount = MaxMsgs /\ Len(request.prompts) = MaxScenes

\* C29: without a prompt the view issues no scene request, opens no channel and
\* creates no audio handle.
C29_IdleWithoutPrompt ==
    ~hasPrompt =>
        /\ fetchAttempts = 0 /\ fetchState \in {"idle", "skipped"}
        /\ wsState = "none" /\ wsCreated = 0 /\ sent = 0
        /\ audioElements = <<>>
        /\ ~isLoading /\ wsStatus = ""

\* the auto-start effect ran without a prompt
C29_Witness == ~hasPrompt /\ fetchState = "skipped"

\* every archive entry is the image of the frame whose sequence index is its position
ArchiveIndexed ==
    \A k \in 1 .. Len(frames) :
        frames[k] # Hole => (frames[k].frame = k - 1 /\ frames[k].data = "jpeg")

\* the archive only grows: no entry is changed or removed
ArchiveStep ==
    /\ Len(frames') >= Len(frames)
    /\ \A k \in 1 .. Len(frames) : frames[k] # Hole => frames'[k] = frames[k]

\* C23: each archive position that holds an entry holds the image of the frame
\* with that sequence index, and an entry once written is never changed or removed.
C23_ArchiveBySequenceIndex == []ArchiveIndexed /\ [][ArchiveStep]_vars

\* frame 0 was skipped and frame 1 sits at position 1, behind a hole
C23_Witness == Len(frames) = 2 /\ frames[1] = Hole /\ frames[2] = Url(1, "jpeg")

\* C24: while a playback pass is running no archive entry is written and the
\* live compositor draws nothing.
C24_ArchiveReadOnlyInPlayback ==
    [][(isPlaying /\ timers # {}) => (frames' = frames /\ last'.drew # "live")]_vars

\* C25: the canvas dimensions are those of frame 0's image once frame 0 has been
\* drawn, and once set they never take another value.
C25_CanvasSizeFixed ==
    /\ []((drawn # <<>> /\ drawn[1] = 0) => canvasSize = 0)
    /\ [](canvasSize \in {-1, 0})
    /\ [][canvasSize # -1 => canvasSize' = canvasSize]_vars

\* the dimensions of frame 0 are still in force in a replay after Stop
C25_Witness ==
    /\ canvasSize = 0 /\ Len(drawn) = MaxFrames
    /\ isPlaying /\ wsStatus = "Playback stopped. Click Play to watch again."

\* C27: an unexpected message (a type other than frame/done/error, or a frame
\* whose format is not jpeg) is ignored: handling it changes nothing of the
\* session - frame buffer, cursor, archive, completion flag, channel state,
\* pending conversions and decodes, statuses - so the channel stays open and the
\* frames that follow are handled as if the message had never arrived.
UnexpectedStep ==
    last'.msg = "unexpected" =>
        /\ wsState = "open" /\ wsState' = "open"
        /\ UNCHANGED <<mounted, editVars, fetchVars, wsCreated, sent, request, terminalSeen,
                       liveVars, playVars, reactVars, audioElements, audioSrc, currentSceneRef>>
C27_UnexpectedIgnored ==
    /\ [][UnexpectedStep]_vars
    /\ [](last.msg = "unexpected" => wsState = "open")
C27_Witness ==
    /\ last.msg = "unexpected"
    /\ wsState = "open"
    /\ readers # EmptyBag
    /\ drawn = <<0>>
    /\ ~isGenerationComplete

\* a step called play() on a handle and the call was rejected
PlayRejected == last'.play # -1 /\ Playing(audioElements') = {}

\* what a step with a rejected play() still does
RejectedStep ==
    PlayRejected =>
        /\ frames' = frames
        /\ currentSceneRef' = last'.play
        /\ IF last'.drew = "play"
           THEN /\ timers' = timers /\ playbackIntervalRef' = playbackIntervalRef
                /\ isPlaying' = isPlaying
                /\ playLoads' \subseteq playLoads
                /\ Cardinality(playLoads \ playLoads') = 1
           ELSE /\ isPlaying' /\ playbackIntervalRef' \in timers'
                /\ playLoads \subseteq playLoads'

\* while no track plays, a tick still starts the load of the frame at the
\* playback position, and a load ends only by drawing its frame
SilentStep ==
    /\ \A p \in timers :
          (/\ last'.tick = p
           /\ Playing(audioElements) = {}
           /\ frameIndex[p] < Len(frames)
           /\ frames[frameIndex[p] + 1] # Hole)
              => [pass |-> p, frame |-> frameIndex[p]] \in playLoads'
    /\ (playLoads \ playLoads' # {}) => last'.drew = "play"

\* C26: a rejected play() is not fatal to visual playback: the step that got the
\* rejection still draws its frame and records the scene, the timer and the
\* playing flag are untouched, the following ticks still load (and the loads draw)
\* the archived frames, and the pass still ends.
C26_AudioRejectionNotFatal ==
    /\ [][RejectedStep /\ SilentStep]_vars
    /\ ((isPlaying /\ Playing(audioElements) = {}) ~> ~isPlaying)

\* the track of scene 1 was rejected at the first boundary, playback goes on
C26_Witness ==
    /\ isPlaying /\ timers # {}
    /\ last.drew = "play" /\ last.play = 1
    /\ currentSceneRef = 1
    /\ Playing(audioElements) = {}

\* the scenes response was handled and its handles were created
Preloaded ==
    /\ Len(audioSrc) = Len(audioElements)
    /\ generatedData # -1 => Len(audioElements) = generatedData
    /\ \A i \in DOMAIN audioSrc :
          IF audioElements[i] = "released" THEN audioSrc[i] = 0 ELSE audioSrc[i] = i

\* the step that handles the scenes response creates the handles and only then
\* constructs the channel; no later step creates or drops a handle
PreloadStep ==
    /\ wsCreated' # wsCreated =>
          /\ fetchState = "pending" /\ wsState = "none" /\ audioElements = <<>>
          /\ \A i \in DOMAIN audioElements' :
                audioElements'[i] = "ready" /\ audioSrc'[i] = i
          /\ mounted => Len(audioElements') = generatedData'
    /\ fetchState = "ok" => Len(audioElements') = Len(audioElements)

\* C28: after a successful scenes response with N scenes there are exactly N
\* audio handles, handle i created from the audio of scene i in response order
\* (until the unmount clears the sources), and they exist before the channel is
\* constructed: a channel never exists without them, and the request sent on it
\* has one prompt per handle.
C28_PreloadBeforeChannel ==
    /\ [](audioElements # <<>> => fetchState = "ok")
    /\ [](fetchState = "ok" => Preloaded)
    /\ [](wsState # "none" => fetchState = "ok")
    /\ [](sent > 0 => Len(request.prompts) = Len(audioElements))
    /\ [][PreloadStep]_vars

\* two scenes: both handles exist while the channel is still connecting
C28_Witness ==
    /\ wsState = "connecting" /\ wsCreated = 1
    /\ generatedData = MaxScenes
    /\ audioSrc = [i \in 1 .. MaxScenes |-> i]
    /\ \A i \in DOMAIN audioElements : audioElements[i] = "ready"

\* C22 as stated: after a live frame f has been drawn, the current scene equals
\* the scene of f.  (Violated: the live display never evaluates the scene chain.)
C22_LiveSceneTracked ==
    (last.drew = "live" /\ drawn # <<>>) =>
        currentSceneRef = SceneIndex(drawn[Len(drawn)])

\* C22, amended: the live display does not track scenes.  Drawing a live frame
\* leaves the current scene as it is, and from the opening of the channel to the
\* end of generation the current scene is 0, whatever frame has been drawn.
C22_LiveSceneUntracked ==
    /\ [][last'.drew = "live" =>
            (currentSceneRef' = currentSceneRef /\ currentScene' = currentScene)]_vars
    /\ []((sent = 1 /\ ~isGenerationComplete) => (currentSceneRef = 0 /\ currentScene = 0))

\* the first frame of scene 1 has just been drawn live
C22_Witness ==
    /\ last.drew = "live"
    /\ drawn[Len(drawn)] = Switch1
    /\ SceneIndex(Switch1) = 1
    /\ currentSceneRef = 0

\* ws.onmessage has handled a frame message for every index 0 .. N - 1
AllReceived(N) == \A i \in 0 .. (N - 1) : \E u \in received : u.frame = i

\* C30: once every frame 0 .. N - 1 has been received, in whatever order and
\* interleaving, the cursor eventually reaches N (while the view is mounted),
\* pending callbacks being scheduled fairly.
C30_AllReceivedDrained ==
    \A N \in 1 .. MaxFrames :
        (mounted /\ AllReceived(N)) ~> (nextFrameToDraw >= N \/ ~mounted)

\* no decode is started while the drawing flag is set
DecodeStep == isDrawing => \A l \in BagToSet(liveLoads') : BagIn(l, liveLoads)

\* C31: the live compositor has at most one image decode in flight; the drawing
\* flag is set exactly while a decode is in flight; while it is set no call of
\* processFrameQueue starts a decode; and the decode in flight ends (by success
\* or by failure) with the flag cleared, callbacks being scheduled fairly.
C31_OneDecodeInFlight ==
    /\ [](BagCardinality(liveLoads) <= 1)
    /\ [](isDrawing <=> liveLoads # EmptyBag)
    /\ [][DecodeStep]_vars
    /\ (isDrawing ~> ~isDrawing)

\* the conversion of frame 1 completed while the decode of frame 0 is in flight
C31_Witness ==
    /\ isDrawing /\ nextFrameToDraw = 0
    /\ BagCardinality(liveLoads) = 1
    /\ 1 \in DOMAIN frameQueue

\* the cursor stays or advances by one, and it advances exactly when a decode
\* completes (the frame is consumed), whose entry then leaves the buffer
CursorStep ==
    /\ nextFrameToDraw' \in {nextFrameToDraw, nextFrameToDraw + 1}
    /\ (nextFrameToDraw' = nextFrameToDraw + 1)
          <=> (BagCardinality(liveLoads') < BagCardinality(liveLoads))
    /\ nextFrameToDraw' = nextFrameToDraw + 1 => nextFrameToDraw \notin DOMAIN frameQueue'

\* C32: with unique sequence indices the cursor never decreases and advances by
\* exactly 1 per consumed frame, every key of the frame buffer is >= the cursor,
\* and a consumed frame has no entry in the buffer.
C32_CursorAndBuffer ==
    /\ [][CursorStep]_vars
    /\ [](\A k \in DOMAIN frameQueue : k >= nextFrameToDraw)

\* frame 1 arrived first and waits in the buffer; frame 0 has been consumed
C32_Witness ==
    /\ reordered
    /\ nextFrameToDraw = 1
    /\ DOMAIN frameQueue = {1}

\* Play leaves exactly the new timer active; Stop, the end of the archive and
\* the unmount leave none, and the first two forget the handle
TimerStep ==
    /\ (~isPlaying /\ isPlaying') =>
          (Cardinality(timers') = 1 /\ timers' = {playbackIntervalRef'})
    /\ (isPlaying /\ ~isPlaying') => (timers' = {} /\ playbackIntervalRef' = 0)
    /\ (mounted /\ ~mounted') => timers' = {}

\* C33: at most one playback interval timer is active, for any sequence of Play,
\* Stop, end-of-playback and unmount events: an active timer is the one whose
\* handle playbackIntervalRef holds, it is active only while the view plays, and
\* every path that ends playback clears it and forgets the handle.
C33_OneTimer ==
    /\ [](Cardinality(timers) <= 1)
    /\ [](timers \subseteq {playbackIntervalRef})
    /\ [](timers # {} => (mounted /\ isPlaying))
    /\ [][TimerStep]_vars

\* Play, Stop, Play again: one timer
C33_Witness ==
    /\ wsStatus = "Playback stopped. Click Play to watch again."
    /\ isPlaying
    /\ Cardinality(timers) = 1
    /\ playbackIntervalRef \in timers

\* a handle starts playing only in the Play step or in an image load of a
\* playback pass, and such loads are started only by Play and by its timer
AudioStartStep ==
    /\ (Playing(audioElements') \ Playing(audioElements) # {}) =>
          /\ isGenerationComplete
          /\ \/ (~isPlaying /\ isPlaying' /\ last'.play = 0)
             \/ (last'.drew = "play" /\ playLoads' # playLoads)
    /\ (playLoads' \ playLoads # {}) =>
          /\ isGenerationComplete /\ isPlaying'
          /\ (~isPlaying \/ last'.tick # 0)

\* C34: no audio plays during generation.  Until generation is complete no
\* handle is playing, whatever frames arrive; and a handle is started only by
\* the Play action or by an image load of the playback it started, so in
\* GenerationComplete nothing plays before the first Play either.
C34_SilentGeneration ==
    /\ [](~isGenerationComplete => (Playing(audioElements) = {} /\ playLoads = {}))
    /\ [][AudioStartStep]_vars

\* every frame was drawn live, generation is complete, nothing plays
C34_Witness ==
    /\ isGenerationComplete /\ ~isPlaying
    /\ last.drew = "live" /\ Len(drawn) = MaxFrames
    /\ audioElements = [i \in 1 .. MaxScenes |-> "ready"]
    /\ currentPlaybackFrame = 0 /\ playLoads = {}

\* a live draw of a frame whose scene an earlier drawn frame already had
SameSceneDraw ==
    /\ last'.drew = "live"
    /\ Len(drawn') = Len(drawn) + 1
    /\ \E k \in 1 .. Len(drawn) :
          EarlierSceneIndex(drawn[k]) = EarlierSceneIndex(drawn'[Len(drawn')])

\* C35: in the earlier streaming revision the audio is restarted only on a scene
\* crossing: drawing a frame of a scene that an earlier drawn frame already
\* belonged to neither pauses, rewinds nor restarts any clip.
C35_RestartOnlyOnCrossing ==
    [][SameSceneDraw =>
          (last'.play = -1 /\ ~last'.paused /\ audioElements' = audioElements)]_vars

\* the chunk the editor assigns to frame f
ChunkOf(f) == f \div FRAMES_PER_CHUNK

\* C36: the editor's chunks agree with the scene boundaries of playback.  Chunk
\* k covers [96k, 96k + 96), and for the frame f a playChunk pass has just
\* handled - every index of 0 .. 479 is one, over the passes of a 5-chunk
\* archive - floor(f / 96) and the scene the playback chain gives f both equal the
\* chunk being played, whose audio handle is the one playChunk started.
C36_ChunksAgreeWithScenes ==
    /\ \A p \in DOMAIN frameIndex :
          LET cl == frameIndex[p]
              f == cl.frameIndex - 1
          IN  /\ cl.startFrame = Switch1 * cl.centerIndex
              /\ cl.endFrame <= cl.startFrame + Switch1
              /\ cl.frameIndex <= cl.endFrame
              /\ f >= cl.startFrame =>
                    /\ f < NumScenes * FRAMES_PER_CHUNK
                    /\ ChunkOf(f) = SceneIndex(f)
                    /\ SceneIndex(f) = cl.centerIndex
    /\ (isPlaying /\ last.play # -1) =>
          (last.play = SceneIndex(currentFrame) /\ last.play = ChunkOf(currentFrame))

\* the last chunk is playing and has reached the last frame of the archive
C36_Witness ==
    \E p \in DOMAIN frameIndex :
        /\ frameIndex[p].centerIndex = NumScenes - 1
        /\ frameIndex[p].frameIndex = NumScenes * FRAMES_PER_CHUNK
        /\ isPlaying

\* k presses of 'next' starting from chunk c
RECURSIVE NextTimes(_, _)
NextTimes(c, k) == IF k = 0 THEN c ELSE NextTimes(GoRightIndex(c), k - 1)

\* C37: whatever previous/next actions were taken, for every totalFrames >= 0
\* (an editor opened with no frames included), the selected chunk is a valid
\* chunk index, 0 <= centerIndex < numChunks; 'next' then 'previous' returns to
\* the same chunk and numChunks times 'next' returns to the starting chunk.
\* (With no chunk at all the formula admits the initial selection, 0.)
C37_CenterIndexValid ==
    /\ centerIndex \in 0 .. (IF numChunks = 0 THEN 0 ELSE numChunks - 1)
    /\ GoLeftIndex(GoRightIndex(centerIndex)) = centerIndex
    /\ GoRightIndex(GoLeftIndex(centerIndex)) = centerIndex
    /\ NextTimes(centerIndex, numChunks) = centerIndex

\* a step that selects another chunk: afterwards no interval timer is left,
\* every audio handle is paused at position 0, the playing flag is false and
\* the position is the first frame of the chunk selected
ChunkChangeStep ==
    centerIndex' # centerIndex =>
        /\ timers' = {}
        /\ playbackIntervalRef' = 0
        /\ frameIndex' = EmptyMap
        /\ \A i \in DOMAIN audioElements' : audioElements'[i] = "ready"
        /\ ~isPlaying'
        /\ currentFrame' = StartFrame(centerIndex')

\* C38: changing the selected chunk while a chunk is playing stops that
\* playback: the timer is cleared, every audio handle is paused and rewound,
\* the playing flag is false and the displayed position is the first frame of
\* the newly selected chunk.
C38_ChunkChangeStops == [][ChunkChangeStep]_vars

\* chunk 1 was selected while the image of frame 1, which only a tick of the
\* playback of chunk 0 requests, was still loading
C38_Witness ==
    /\ centerIndex = 1
    /\ last.paused
    /\ [frame |-> 1] \in playLoads
    /\ [frame |-> StartFrame(1)] \in playLoads
    /\ currentFrame = StartFrame(1)
    /\ ~isPlaying /\ timers = {}

\* the frames of chunk c: [96c, min(96c + 96, totalFrames))
ChunkFrames(c) == StartFrame(c) .. (EndFrame(c) - 1)

\* playFrame of the pass with closure cl at a position before the end of the
\* chunk: it asks drawFrame for the frame at its position, a frame of the
\* selected chunk, and for no other, and moves the position on by one
ChunkFrameStep(q, cl) ==
    /\ cl.frameIndex \in ChunkFrames(centerIndex)
    /\ playLoads' = (IF frames[cl.frameIndex + 1] # Hole
                     THEN playLoads \cup {[frame |-> cl.frameIndex]}
                     ELSE playLoads)
    /\ currentFrame' = cl.frameIndex
    /\ isPlaying'
    /\ timers' = {q} /\ playbackIntervalRef' = q
    /\ frameIndex'[q].frameIndex = cl.frameIndex + 1

\* playFrame at the end of the chunk
ChunkEndStep(cl) ==
    /\ cl.frameIndex = EndFrame(centerIndex)
    /\ timers' = {} /\ playbackIntervalRef' = 0
    /\ Playing(audioElements') = {}
    /\ ~isPlaying'
    /\ currentFrame' = StartFrame(centerIndex)
    /\ playLoads' \subseteq playLoads \cup {[frame |-> StartFrame(centerIndex)]}

\* a step of the playback of a chunk: the Play of playChunk, which runs
\* playFrame at the first frame of the chunk, or a tick of its interval
ChunkPlayStep ==
    /\ (~isPlaying /\ isPlaying') =>
          /\ centerIndex \in 0 .. (numChunks - 1)
          /\ \E q \in timers' :
                ChunkFrameStep(q, [frameIndex |-> StartFrame(centerIndex)])
    /\ last'.tick # 0 =>
          LET cl == frameIndex[last'.tick]
          IN  /\ cl.centerIndex = centerIndex
              /\ IF cl.frameIndex < cl.endFrame
                 THEN ChunkFrameStep(last'.tick, cl)
                 ELSE ChunkEndStep(cl)

====
